---- MODULE Spec2Model ----
(***************************************************************************)
(* Model of the murmurations viewer.                                       *)
(*                                                                         *)
(*  - the graph data reconciler of App (the setData updater of the         *)
(*    reconcile effect, with the handlers that trigger it),                *)
(*  - the sources list of App and the rawData entries of its sources,      *)
(*  - the ForceGraph2D component (simulation data, simulation effect,      *)
(*    hit-testing, drag, hover and click handlers, mounting),              *)
(*  - the paged fetcher, and                                               *)
(*  - the EditDrawer form.                                                 *)
(*                                                                         *)
(* The specifications share the variables; each drives one part: SpecApp   *)
(* the reconciler, SpecSources the sources list, SpecGraph, SpecInteract   *)
(* and SpecView the ForceGraph2D component, SpecHit, SpecHover and         *)
(* SpecPointer its hit-testing and pointer handlers on enumerated          *)
(* layouts, SpecFetch and SpecFetchFair the fetcher, SpecLinks the         *)
(* relationship links, and SpecEdit the drawer.                            *)
(***************************************************************************)
EXTENDS Integers, Sequences, FiniteSets, TLC

VARIABLES
    \* ---- App ----
    rawData,            \* Record<string, NetworkDataType>, in key insertion order
    heap,               \* the Person / Organization objects (mutated by the merge)
    nodeFilter,         \* 'all' | 'people' | 'orgs'
    showRelationships,
    showTags,
    data,               \* GraphData: the live node and link arrays
    crashed,            \* a render after the pass threw
    \* ---- ForceGraph2D ----
    graphData,          \* the graphData prop
    simNodes,           \* simulationData.nodes
    simLinks,           \* simulationData.links
    simulation,         \* simulationRef.current (NoSim before it is created)
    transform,          \* transformRef.current
    effectsPending,     \* rendered with new graphData, effects not yet run
    gesture,            \* the drag gesture in progress
    ticks,              \* simulation ticks run so far
    \* ---- hit-testing calls ----
    probe,              \* the last hit-test or click: function called, screen point, result
    relCall,            \* the last call of getLinksFromRelationships: arguments, result
    \* ---- ForceGraph2D: hover ----
    hoveredNode,        \* the hoveredNode state (NoTarget for null)
    hoveredLink,        \* the hoveredLink state (NoTarget for null)
    tooltip,            \* the tooltip state (NoTooltip for null)
    calls,              \* the hover callbacks the last mouse handler invoked
    \* ---- ForceGraph2D: interaction props, listeners, mounting ----
    props,              \* enableZoomInteraction, enablePanInteraction, enableNodeDrag
    attached,           \* the d3 behaviours whose listeners are on the canvas
    mounted,            \* the component is mounted
    \* ---- NetworkOptions: one fetcher ----
    fetcher,            \* the running networks[].value call and its AbortSignal
    netData,            \* the data store of NetworkOptions
    fetchCalls,         \* the callbacks the fetcher invoked in its last step
    \* ---- App: the sources list; EditDrawer ----
    sources,            \* the labels of the sources list, in order
    drawer              \* EditDrawer: its props, stores, form and last save

appVars == <<rawData, heap, nodeFilter, showRelationships, showTags, data, crashed>>
graphVars == <<graphData, simNodes, simLinks, simulation, transform, effectsPending,
               gesture, ticks>>
hitVars == <<probe, relCall>>
viewVars == <<hoveredNode, hoveredLink, tooltip, calls>>
mountVars == <<props, attached, mounted>>
fetchVars == <<fetcher, netData, fetchCalls>>
editVars == <<sources, drawer>>
vars == <<rawData, heap, nodeFilter, showRelationships, showTags, data, crashed,
          graphData, simNodes, simLinks, simulation, transform, effectsPending,
          gesture, ticks, probe, relCall, hoveredNode, hoveredLink, tooltip, calls,
          props, attached, mounted, fetcher, netData, fetchCalls, sources, drawer>>

(***************************************************************************)
(* Generic sequence helpers                                                *)
(***************************************************************************)
Range(s) == {s[i] : i \in 1..Len(s)}

\* Array.from(new Set(s)): first occurrences, in order
RECURSIVE Dedup(_)
Dedup(s) ==
    IF s = <<>> THEN <<>>
    ELSE LET front == Dedup(SubSeq(s, 1, Len(s) - 1))
             x == s[Len(s)]
         IN IF x \in Range(front) THEN front ELSE Append(front, x)

RECURSIVE Flatten(_)
Flatten(ss) == IF ss = <<>> THEN <<>> ELSE Head(ss) \o Flatten(Tail(ss))

\* Array.prototype.find: the first element with the id, or none
RECURSIVE FindIndex(_, _, _)
FindIndex(s, id, i) ==
    IF i > Len(s) THEN 0
    ELSE IF s[i].id = id THEN i ELSE FindIndex(s, id, i + 1)

(***************************************************************************)
(* Schema vocabulary and the records the sources can deliver               *)
(***************************************************************************)
memberOf == "https://schema.org/memberOf"
knows == "https://schema.org/knows"
maintainer == "https://schema.org/maintainer"
softwareRequirement == "https://schema.org/softwareRequirement"

\* The labels of the first two default sources, in the order of the sources
\* list (the third source is taken to deliver nothing: an empty source adds
\* nothing to a pass)
Labels == <<"World Wise Web", "Limicon 2024">>

Rel(p, o, r) == [predicate_url |-> p, object_url |-> o, rid |-> r]

Rec(nm, url, desc, tg, rels, schema) ==
    [name |-> nm, profile_url |-> url, primary_url |-> url, description |-> desc,
     image |-> "", tags |-> tg, relationships |-> rels, linked_schemas |-> <<schema>>]

PeopleSchema == "people_schema-v0.1.0"
OrgsSchema == "organizations_schema-v1.0.0"

\* The Person / Organization objects as the fetchers and the edit drawer
\* create them.  A relationship carries rid, its object identity: JSON
\* parsing gives every record its own relationship objects.
InitialHeap ==
    [o \in {"alice", "bob", "alice2", "aliceEdited", "org", "org2"} |->
        CASE o = "alice" ->
                Rec("Alice", "u:alice", "", <<>>, <<Rel(knows, "u:bob", 1)>>, PeopleSchema)
          [] o = "bob" ->
                Rec("Bob", "u:bob", "bob", <<"t1">>, <<Rel(memberOf, "u:org", 2)>>, PeopleSchema)
          [] o = "alice2" ->
                Rec("Alice", "u:alice2", "second", <<"t1">>, <<Rel(knows, "u:bob", 3)>>,
                    PeopleSchema)
          [] o = "aliceEdited" ->
                Rec("Alicia", "u:alice", "", <<>>, <<Rel(memberOf, "u:org", 4)>>, PeopleSchema)
          [] o = "org" ->
                Rec("Org", "u:org", "", <<"t1">>, <<>>, OrgsSchema)
          [] o = "org2" ->
                Rec("Org", "u:org", "an org", <<>>, <<>>, OrgsSchema)]

ObjectIds == DOMAIN InitialHeap

Dataset(p, o) == [people |-> p, orgs |-> o]

EmptyDataset == Dataset(<<>>, <<>>)

\* What each source can hold: nothing yet, its fetched file, or the file
\* after an edit saved in the drawer
Datasets(label) ==
    CASE label = Labels[1] ->
            {EmptyDataset, Dataset(<<"alice", "bob">>, <<"org">>),
             Dataset(<<"aliceEdited", "bob">>, <<"org">>)}
      [] label = Labels[2] ->
            {EmptyDataset, Dataset(<<"alice2">>, <<"org2">>)}

(***************************************************************************)
(* App: derived links                                                      *)
(***************************************************************************)
StrEnd(id) == [kind |-> "string", id |-> id]
NodeEnd(id) == [kind |-> "node", id |-> id]
StaleEnd(id) == [kind |-> "stale", id |-> id]
UndefinedEnd == [kind |-> "undefined", id |-> ""]

Link(s, type, t) == [source |-> StrEnd(s), target |-> StrEnd(t), type |-> type]

\* One relationship of a person: the link it yields, if any
PersonRelLinks(person, r, personUrls, orgUrls) ==
    IF r.predicate_url = memberOf
    THEN IF r.object_url \in orgUrls
         THEN <<Link(person.profile_url, "memberOf", r.object_url)>> ELSE <<>>
    ELSE IF r.predicate_url = knows
    THEN IF r.object_url \in personUrls
         THEN <<Link(person.profile_url, "knows", r.object_url)>> ELSE <<>>
    ELSE IF r.predicate_url = maintainer
    THEN IF r.object_url \in orgUrls
         THEN <<Link(person.profile_url, "maintainer", r.object_url)>> ELSE <<>>
    ELSE <<>>

OrgRelLinks(org, r, orgUrls) ==
    IF r.predicate_url = softwareRequirement /\ r.object_url \in orgUrls
    THEN <<Link(org.profile_url, "softwareRequirement", r.object_url)>>
    ELSE <<>>

\* people, orgs: sequences of records
getLinksFromRelationships(people, orgs) ==
    LET personUrls == {people[i].profile_url : i \in 1..Len(people)}
        orgUrls == {orgs[i].profile_url : i \in 1..Len(orgs)}
        ofPerson(p) == Flatten([j \in 1..Len(p.relationships) |->
                           PersonRelLinks(p, p.relationships[j], personUrls, orgUrls)])
        ofOrg(o) == Flatten([j \in 1..Len(o.relationships) |->
                           OrgRelLinks(o, o.relationships[j], orgUrls)])
    IN Flatten([i \in 1..Len(people) |-> ofPerson(people[i])])
       \o Flatten([i \in 1..Len(orgs) |-> ofOrg(orgs[i])])

TagId(tag) == "tag:" \o tag

TagNode(tag, network) ==
    [id |-> TagId(tag), name |-> tag, type |-> "tag", networks |-> <<network>>,
     profile |-> "", tag |-> tag]

\* people, orgs: sequences of records
getTagNodesAndLinks(people, orgs, network) ==
    LET entities == people \o orgs
        knownTags == Dedup(Flatten([i \in 1..Len(entities) |-> entities[i].tags]))
        ofEntity(e) == [j \in 1..Len(e.tags) |-> Link(e.profile_url, "tag", TagId(e.tags[j]))]
    IN [nodes |-> [i \in 1..Len(knownTags) |-> TagNode(knownTags[i], network)],
        links |-> Flatten([i \in 1..Len(entities) |-> ofEntity(entities[i])])]

\* `${source id}-${type}-${target id}`; reading .id of an undefined endpoint throws
getLinkKey(link) == link.source.id \o "-" \o link.type \o "-" \o link.target.id

(***************************************************************************)
(* App: the reconcile effect (the setData updater)                         *)
(***************************************************************************)
EntityNode(o, rec, type, network) ==
    [id |-> rec.profile_url, name |-> rec.name, type |-> type,
     networks |-> <<network>>, profile |-> o, tag |-> ""]

\* merge network & relationships if duplicate name found
MergeDuplicate(existing, person) ==
    [existing EXCEPT
        !.profile_url = IF @ = "" /\ person.profile_url # "" THEN person.profile_url ELSE @,
        !.primary_url = IF @ = "" /\ person.primary_url # "" THEN person.primary_url ELSE @,
        !.description = IF @ = "" /\ person.description # "" THEN person.description ELSE @,
        !.image = IF @ = "" /\ person.image # "" THEN person.image ELSE @,
        !.tags = Dedup(@ \o person.tags),
        !.relationships = Dedup(@ \o person.relationships),
        !.linked_schemas = Dedup(@ \o person.linked_schemas)]

\* The accumulators of one pass
StartPass(h) ==
    [heap |-> h, seenNodeIDs |-> {}, seenLinkIDs |-> {}, seenNodeNames |-> <<>>,
     newNodesData |-> <<>>, newLinksData |-> <<>>]

\* Add person nodes: one iteration of the loop over filteredPeople
PersonStep(st, p, network, existingNodeIDs) ==
    LET person == st.heap[p] IN
    IF person.name \in DOMAIN st.seenNodeNames
    THEN LET e == st.seenNodeNames[person.name]
         IN [st EXCEPT !.heap[e] = MergeDuplicate(st.heap[e], person)]
    ELSE [st EXCEPT
            !.seenNodeIDs = @ \cup {person.profile_url},
            !.seenNodeNames = (person.name :> p) @@ @,
            !.newNodesData =
                IF person.profile_url \in existingNodeIDs THEN @
                ELSE Append(@, EntityNode(p, person, "person", network))]

\* Add organization nodes: one iteration of the loop over filteredOrgs
OrgStep(st, o, network, existingNodeIDs) ==
    LET org == st.heap[o] IN
    [st EXCEPT
        !.seenNodeNames = (org.name :> o) @@ @,
        !.seenNodeIDs = @ \cup {org.profile_url},
        !.newNodesData =
            IF org.profile_url \in existingNodeIDs THEN @
            ELSE Append(@, EntityNode(o, org, "organization", network))]

RECURSIVE PeopleLoop(_, _, _, _)
PeopleLoop(st, people, network, existingNodeIDs) ==
    IF people = <<>> THEN st
    ELSE PeopleLoop(PersonStep(st, Head(people), network, existingNodeIDs),
                    Tail(people), network, existingNodeIDs)

RECURSIVE OrgsLoop(_, _, _, _)
OrgsLoop(st, orgs, network, existingNodeIDs) ==
    IF orgs = <<>> THEN st
    ELSE OrgsLoop(OrgStep(st, Head(orgs), network, existingNodeIDs),
                  Tail(orgs), network, existingNodeIDs)

\* Add tag nodes
RECURSIVE TagNodesLoop(_, _, _)
TagNodesLoop(st, tagNodes, existingNodeIDs) ==
    IF tagNodes = <<>> THEN st
    ELSE LET tagNode == Head(tagNodes)
         IN TagNodesLoop(
                [st EXCEPT
                    !.seenNodeIDs = @ \cup {tagNode.id},
                    !.newNodesData =
                        IF tagNode.id \in existingNodeIDs THEN @ ELSE Append(@, tagNode)],
                Tail(tagNodes), existingNodeIDs)

\* Add tag links (only if both source and target nodes are visible)
TagLinkVisible(link, seenNodeIDs, existingNodeIDs) ==
    /\ (link.source.id \in seenNodeIDs \/ link.source.id \in existingNodeIDs)
    /\ (link.target.id \in seenNodeIDs \/ link.target.id \in existingNodeIDs)

RECURSIVE TagLinksLoop(_, _, _, _)
TagLinksLoop(st, tagLinks, existingNodeIDs, existingLinksIDs) ==
    IF tagLinks = <<>> THEN st
    ELSE LET link == Head(tagLinks)
             linkKey == getLinkKey(link)
             next ==
                IF TagLinkVisible(link, st.seenNodeIDs, existingNodeIDs)
                THEN [st EXCEPT
                        !.seenLinkIDs = @ \cup {linkKey},
                        !.newLinksData =
                            IF linkKey \in existingLinksIDs THEN @ ELSE Append(@, link)]
                ELSE st
         IN TagLinksLoop(next, Tail(tagLinks), existingNodeIDs, existingLinksIDs)

Records(h, objs) == [i \in 1..Len(objs) |-> h[objs[i]]]

\* Add tag nodes and links: tag nodes, then tag links, of one network
TagsStep(st, tagData, existingNodeIDs, existingLinksIDs) ==
    TagLinksLoop(TagNodesLoop(st, tagData.nodes, existingNodeIDs),
                 tagData.links, existingNodeIDs, existingLinksIDs)

\* The tag branch taken whatever showTags says
ShowTagsStep_always(st, raw, tags, existingNodeIDs, existingLinksIDs) ==
    TagsStep(st,
             getTagNodesAndLinks(Records(st.heap, raw.people),
                                 Records(st.heap, raw.orgs), raw.label),
             existingNodeIDs, existingLinksIDs)

\* if (showTags): use all people and orgs for tag generation, regardless of
\* node filter
ShowTagsStep(st, raw, tags, existingNodeIDs, existingLinksIDs) ==
    IF tags
    THEN TagsStep(st,
                  getTagNodesAndLinks(Records(st.heap, raw.people),
                                      Records(st.heap, raw.orgs), raw.label),
                  existingNodeIDs, existingLinksIDs)
    ELSE st

\* The body of the loop over rawData for one network
NetworkStep(st, raw, filter, tags, existingNodeIDs, existingLinksIDs) ==
    IF ~raw.active THEN st
    ELSE ShowTagsStep(
            OrgsLoop(PeopleLoop(st, IF filter = "orgs" THEN <<>> ELSE raw.people,
                                raw.label, existingNodeIDs),
                     IF filter = "people" THEN <<>> ELSE raw.orgs,
                     raw.label, existingNodeIDs),
            raw, tags, existingNodeIDs, existingLinksIDs)

RECURSIVE NetworksLoop(_, _, _, _, _, _)
NetworksLoop(st, raws, filter, tags, existingNodeIDs, existingLinksIDs) ==
    IF raws = <<>> THEN st
    ELSE NetworksLoop(
            NetworkStep(st, Head(raws), filter, tags, existingNodeIDs, existingLinksIDs),
            Tail(raws), filter, tags, existingNodeIDs, existingLinksIDs)

\* create links from new nodes: the relationship links of the live profiles
RECURSIVE RelationshipLinksLoop(_, _, _)
RelationshipLinksLoop(st, relLinks, existingLinksIDs) ==
    IF relLinks = <<>> THEN st
    ELSE LET link == Head(relLinks)
             linkKey == getLinkKey(link)
         IN RelationshipLinksLoop(
                [st EXCEPT
                    !.seenLinkIDs = @ \cup {linkKey},
                    !.newLinksData =
                        IF linkKey \in existingLinksIDs THEN @ ELSE Append(@, link)],
                Tail(relLinks), existingLinksIDs)

ProfilesOfType(h, nodes, type) ==
    LET sel == SelectSeq(nodes, LAMBDA n : n.type = type)
    IN [i \in 1..Len(sel) |-> h[sel[i].profile]]

\* ensure source and target are NodeData objects: find() gives the node or undefined
ResolveEnd(nodes, id) ==
    IF FindIndex(nodes, id, 1) = 0 THEN UndefinedEnd ELSE NodeEnd(id)

\* A kept link keeps the node objects it holds: an endpoint whose node was
\* spliced out of the node array now refers to an object that is no longer live
KeepEnd(end, removedIDs) ==
    IF end.kind = "node" /\ end.id \in removedIDs THEN StaleEnd(end.id) ELSE end

ResolveLink(link, nodes, removedIDs) ==
    IF link.source.kind = "string"
    THEN [link EXCEPT !.source = ResolveEnd(nodes, link.source.id),
                      !.target = ResolveEnd(nodes, link.target.id)]
    ELSE [link EXCEPT !.source = KeepEnd(@, removedIDs),
                      !.target = KeepEnd(@, removedIDs)]

ExistingNodeIDs(prevData) == {prevData.nodes[i].id : i \in 1..Len(prevData.nodes)}
ExistingLinksIDs(prevData) == {getLinkKey(prevData.links[i]) : i \in 1..Len(prevData.links)}

\* ensure source and target are NodeData objects, for every link; the result
\* of the updater
ResolveLinks(nodes, links, removedIDs, h) ==
    [data |-> [nodes |-> nodes,
               links |-> [i \in 1..Len(links) |-> ResolveLink(links[i], nodes, removedIDs)]],
     heap |-> h]

\* remove old links, add new links
UpdateLinks(prevData, st, nodes, removedIDs) ==
    ResolveLinks(nodes,
                 SelectSeq(prevData.links, LAMBDA l : getLinkKey(l) \in st.seenLinkIDs)
                    \o st.newLinksData,
                 removedIDs, st.heap)

\* create links from new nodes: the relationship links of the live profiles
LinksFromRelationships(prevData, st, nodes, removedIDs, relationships) ==
    UpdateLinks(prevData,
                IF relationships
                THEN RelationshipLinksLoop(st,
                        getLinksFromRelationships(ProfilesOfType(st.heap, nodes, "person"),
                                                  ProfilesOfType(st.heap, nodes, "organization")),
                        ExistingLinksIDs(prevData))
                ELSE st,
                nodes, removedIDs)

\* remove old nodes, add new nodes
UpdateNodes(prevData, st, relationships) ==
    LinksFromRelationships(prevData, st,
        SelectSeq(prevData.nodes, LAMBDA n : n.id \in st.seenNodeIDs) \o st.newNodesData,
        ExistingNodeIDs(prevData) \ st.seenNodeIDs,
        relationships)

\* The updater: from the previous graph and the inputs to the next graph and heap
Reconcile(prevData, h, raws, filter, relationships, tags) ==
    UpdateNodes(prevData,
                NetworksLoop(StartPass(h), raws, filter, tags,
                             ExistingNodeIDs(prevData), ExistingLinksIDs(prevData)),
                relationships)

\* useEnclosingCircles builds its neighbour map in the render that follows:
\* map.get(s.id)!.add(t) throws when an endpoint is undefined or its id is no key
neighborsThrows(d) ==
    LET ids == {d.nodes[i].id : i \in 1..Len(d.nodes)}
    IN \E i \in 1..Len(d.links) :
          \/ d.links[i].source.kind = "undefined"
          \/ d.links[i].target.kind = "undefined"
          \/ d.links[i].source.id \notin ids
          \/ d.links[i].target.id \notin ids

(***************************************************************************)
(* Exact rational arithmetic for coordinates and scales                    *)
(***************************************************************************)
Abs(a) == IF a < 0 THEN -a ELSE a

RECURSIVE GCD(_, _)
GCD(a, b) == IF b = 0 THEN a ELSE GCD(b, a % b)

\* n / d in lowest terms with a positive denominator (d # 0)
Rat(n, d) ==
    LET g == GCD(Abs(n), Abs(d))
        sgn == IF d < 0 THEN -1 ELSE 1
    IN [n |-> (sgn * n) \div g, d |-> (sgn * d) \div g]

Whole(n) == [n |-> n, d |-> 1]
Zero == Whole(0)
\* over the least common denominator, to keep the numbers small
Add(a, b) ==
    LET g == GCD(a.d, b.d)
    IN Rat(a.n * (b.d \div g) + b.n * (a.d \div g), (a.d \div g) * b.d)
Neg(a) == [n |-> -a.n, d |-> a.d]
Sub(a, b) == Add(a, Neg(b))
Mul(a, b) ==
    LET g1 == GCD(Abs(a.n), b.d)
        g2 == GCD(Abs(b.n), a.d)
    IN Rat((a.n \div g1) * (b.n \div g2), (a.d \div g2) * (b.d \div g1))
Inv(a) == IF a.n < 0 THEN [n |-> -a.d, d |-> -a.n] ELSE [n |-> a.d, d |-> a.n]
Div(a, b) == Mul(a, Inv(b))
Leq(a, b) ==
    LET g == GCD(a.d, b.d)
    IN a.n * (b.d \div g) <= b.n * (a.d \div g)
Less(a, b) == ~Leq(b, a)
Sq(a) == Mul(a, a)
RMax(a, b) == IF Leq(a, b) THEN b ELSE a
RMin(a, b) == IF Leq(a, b) THEN a ELSE b

(***************************************************************************)
(* ForceGraph2D: props, simulation data                                    *)
(***************************************************************************)
nodeSize == 5               \* the nodeSize prop (its default)
linkHitPixels == 5          \* 5 pixel threshold of getLinkAtPosition
scaleExtentMin == Rat(1, 10)
scaleExtentMax == Whole(10)

NoSim == [created |-> FALSE, running |-> FALSE, alpha |-> 0, alphaTarget |-> 0,
          nodes |-> <<>>, links |-> <<>>]
NoGesture == [active |-> FALSE, startedOn |-> 0]
NoProbe == [called |-> "none", x |-> Zero, y |-> Zero, result |-> 0]
NoRelCall == [called |-> FALSE, people |-> <<>>, orgs |-> <<>>, result |-> <<>>]
IdentityTransform == [k |-> Whole(1), x |-> Zero, y |-> Zero]

\* A hovered element: its index in simulationData, its id, and whether the
\* object is one of an earlier simulationData (the memo makes new objects
\* for every graphData, so an object of an earlier one equals no current one)
NoTarget == [idx |-> 0, id |-> <<>>, replaced |-> FALSE]
NodeTarget(nodes, i) ==
    IF i = 0 THEN NoTarget ELSE [idx |-> i, id |-> <<nodes[i].id>>, replaced |-> FALSE]
LinkTarget(links, i) ==
    IF i = 0 THEN NoTarget
    ELSE [idx |-> i, id |-> <<links[i].source, links[i].target>>, replaced |-> FALSE]
Replaced(target) == IF target = NoTarget THEN NoTarget ELSE [target EXCEPT !.replaced = TRUE]

NoTooltip == [shown |-> FALSE, x |-> Zero, y |-> Zero, content |-> <<>>]
Tooltip(p, target) ==
    IF target = NoTarget THEN NoTooltip
    ELSE [shown |-> TRUE, x |-> p.x, y |-> p.y, content |-> target.id]

\* The interaction props (their defaults) and the behaviours the zoom/drag
\* effect attached at mount
DefaultProps ==
    [enableZoomInteraction |-> TRUE, enablePanInteraction |-> TRUE, enableNodeDrag |-> TRUE]

\* The zoom/drag effect: selection.call(zoomBehavior) when zoom or pan is
\* enabled, selection.call(dragBehavior) when node drag is enabled.  It
\* returns no cleanup: listeners that are on the canvas stay on it
attach(on, p) ==
    [zoom |-> on.zoom \/ p.enableZoomInteraction \/ p.enablePanInteraction,
     drag |-> on.drag \/ p.enableNodeDrag]

MountedWith(p) ==
    /\ props = p
    /\ attached = attach([zoom |-> FALSE, drag |-> FALSE], p)
    /\ mounted = TRUE

Mounted == MountedWith(DefaultProps)

\* No fetcher in view
NoFetcher == [kind |-> "none", pc |-> "done", aborted |-> FALSE,
              peoplePage |-> 1, orgsPage |-> 1,
              totalPeoplePages |-> -1, totalOrgsPages |-> -1,
              people |-> 0, orgs |-> 0]
NoFetch ==
    /\ fetcher = NoFetcher
    /\ netData = [people |-> 0, orgs |-> 0]
    /\ fetchCalls = <<>>

\* The form of EditDrawer for adding a node of the given type
EmptyForm(type) ==
    [type |-> type, name |-> "", primary_url |-> "", profile_url |-> "",
     relationships |-> <<>>]

NoSave == [called |-> FALSE]

\* EditDrawer of a source that holds the given lists: closed, in add mode
DrawerOf(people, organizations) ==
    [isOpen |-> FALSE, people |-> people, organizations |-> organizations,
     editMode |-> "add", selectedNodeId |-> "", nodeType |-> "person",
     formData |-> EmptyForm("person"), saved |-> NoSave]

\* The sources list of App as created; the drawer of a source without data
NoEdit ==
    /\ sources = <<"World Wise Web", "Limicon 2024", "Limicon 2025">>
    /\ drawer = DrawerOf(<<>>, <<>>)

\* useState(null) for hoveredNode, hoveredLink and tooltip
NoHover ==
    /\ hoveredNode = NoTarget
    /\ hoveredLink = NoTarget
    /\ tooltip = NoTooltip
    /\ calls = <<>>

\* { ...node }: a fresh copy of a graphData node.  The nodes App supplies carry
\* no x, y, vx, vy, fx, fy: the component writes them to its copies only
SimNode(node) ==
    [id |-> node.id, hasPos |-> FALSE, x |-> Zero, y |-> Zero, vx |-> Zero, vy |-> Zero,
     pinned |-> FALSE, fx |-> Zero, fy |-> Zero]

\* The useMemo over graphData
simulationData(g) ==
    [nodes |-> [i \in 1..Len(g.nodes) |-> SimNode(g.nodes[i])],
     links |-> [i \in 1..Len(g.links) |->
                    [source |-> g.links[i].source, target |-> g.links[i].target]]]

\* nodeMap.get(id): nodeMap.set runs in array order, so the last copy wins
RECURSIVE LastIndex(_, _, _)
LastIndex(nodes, id, i) ==
    IF i = 0 THEN 0
    ELSE IF nodes[i].id = id THEN i ELSE LastIndex(nodes, id, i - 1)

nodeMapGet(nodes, id) == LastIndex(nodes, id, Len(nodes))

(***************************************************************************)
(* ForceGraph2D: hit-testing                                               *)
(***************************************************************************)
\* A variant that forgets the translation of the view transform
adjusted_untranslated(tr, x, y) == [x |-> Div(x, tr.k), y |-> Div(y, tr.k)]

\* screen -> world: (x - tx) / k
adjusted(tr, x, y) == [x |-> Div(Sub(x, tr.x), tr.k), y |-> Div(Sub(y, tr.y), tr.k)]

\* world -> screen, as ctx.translate(x, y); ctx.scale(k, k) maps it
screenOf(tr, wx, wy) == [x |-> Add(Mul(wx, tr.k), tr.x), y |-> Add(Mul(wy, tr.k), tr.y)]

\* distance <= radius, compared as squares
nodeHit(node, tr, x, y) ==
    LET a == adjusted(tr, x, y)
        radius == Whole(nodeSize)
    IN /\ node.hasPos
       /\ Leq(Add(Sq(Sub(a.x, node.x)), Sq(Sub(a.y, node.y))), Sq(radius))

\* The first node in iteration order that is hit, 0 for null
RECURSIVE FirstNodeHit(_, _, _, _, _)
FirstNodeHit(nodes, tr, x, y, i) ==
    IF i > Len(nodes) THEN 0
    ELSE IF nodeHit(nodes[i], tr, x, y) THEN i
    ELSE FirstNodeHit(nodes, tr, x, y, i + 1)

getNodeAtPosition(nodes, tr, x, y) == FirstNodeHit(nodes, tr, x, y, 1)

\* A variant whose threshold is 5 world units at every scale
linkHit_worldThreshold(nodes, link, tr, x, y) ==
    LET a == adjusted(tr, x, y)
        threshold == Whole(linkHitPixels)
        si == nodeMapGet(nodes, link.source)
        ti == nodeMapGet(nodes, link.target)
    IN /\ si # 0 /\ ti # 0
       /\ nodes[si].hasPos /\ nodes[ti].hasPos
       /\ LET sourceNode == nodes[si]
              targetNode == nodes[ti]
              dx == Sub(targetNode.x, sourceNode.x)
              dy == Sub(targetNode.y, sourceNode.y)
              length2 == Add(Sq(dx), Sq(dy))
          IN /\ length2 # Zero
             /\ LET dot == Add(Mul(Sub(a.x, sourceNode.x), dx), Mul(Sub(a.y, sourceNode.y), dy))
                    t == RMax(Zero, RMin(Whole(1), Div(dot, length2)))
                    closestX == Add(sourceNode.x, Mul(t, dx))
                    closestY == Add(sourceNode.y, Mul(t, dy))
                IN Leq(Add(Sq(Sub(a.x, closestX)), Sq(Sub(a.y, closestY))), Sq(threshold))

\* Distance from point to line segment against the threshold 5 / k
linkHit(nodes, link, tr, x, y) ==
    LET a == adjusted(tr, x, y)
        threshold == Div(Whole(linkHitPixels), tr.k)
        si == nodeMapGet(nodes, link.source)
        ti == nodeMapGet(nodes, link.target)
    IN /\ si # 0 /\ ti # 0
       /\ nodes[si].hasPos /\ nodes[ti].hasPos
       /\ LET sourceNode == nodes[si]
              targetNode == nodes[ti]
              dx == Sub(targetNode.x, sourceNode.x)
              dy == Sub(targetNode.y, sourceNode.y)
              length2 == Add(Sq(dx), Sq(dy))
          IN /\ length2 # Zero
             /\ LET dot == Add(Mul(Sub(a.x, sourceNode.x), dx), Mul(Sub(a.y, sourceNode.y), dy))
                    t == RMax(Zero, RMin(Whole(1), Div(dot, length2)))
                    closestX == Add(sourceNode.x, Mul(t, dx))
                    closestY == Add(sourceNode.y, Mul(t, dy))
                IN Leq(Add(Sq(Sub(a.x, closestX)), Sq(Sub(a.y, closestY))), Sq(threshold))

RECURSIVE FirstLinkHit(_, _, _, _, _, _)
FirstLinkHit(nodes, links, tr, x, y, i) ==
    IF i > Len(links) THEN 0
    ELSE IF linkHit(nodes, links[i], tr, x, y) THEN i
    ELSE FirstLinkHit(nodes, links, tr, x, y, i + 1)

getLinkAtPosition(nodes, links, tr, x, y) == FirstLinkHit(nodes, links, tr, x, y, 1)

\* draw(): the radius passed to ctx.arc, in world units
drawRadius(tr) == Div(Whole(nodeSize), tr.k)

\* draw(): the links it draws a line for (default path) or passes to
\* linkCanvasObject (when that prop is given)
drawLinks(nodes, links, linkCanvasObject) ==
    { i \in 1..Len(links) :
        \/ linkCanvasObject
        \/ /\ nodeMapGet(nodes, links[i].source) # 0
           /\ nodeMapGet(nodes, links[i].target) # 0
           /\ nodes[nodeMapGet(nodes, links[i].source)].hasPos
           /\ nodes[nodeMapGet(nodes, links[i].target)].hasPos }

\* draw(): the nodes it draws a circle for (default path) or passes to
\* nodeCanvasObject (when that prop is given)
drawNodes(nodes, nodeCanvasObject) ==
    { i \in 1..Len(nodes) : nodeCanvasObject \/ nodes[i].hasPos }

(***************************************************************************)
(* App: state after mount, and the handlers that trigger a pass            *)
(***************************************************************************)
ForceGraphIdle ==
    /\ graphData = [nodes |-> <<>>, links |-> <<>>]
    /\ simNodes = <<>>
    /\ simLinks = <<>>
    /\ simulation = NoSim
    /\ transform = IdentityTransform
    /\ effectsPending = FALSE
    /\ gesture = NoGesture
    /\ ticks = 0
    /\ probe = NoProbe
    /\ relCall = NoRelCall
    /\ NoHover

GraphIdle == ForceGraphIdle /\ Mounted /\ NoFetch /\ NoEdit

\* Every NetworkOptions has mounted and reported its empty data
InitApp ==
    /\ rawData = [i \in 1..Len(Labels) |->
                    [label |-> Labels[i], people |-> <<>>, orgs |-> <<>>,
                     active |-> TRUE, editing |-> FALSE]]
    /\ heap = InitialHeap
    /\ nodeFilter = "all"
    /\ showRelationships = TRUE
    /\ showTags = FALSE
    /\ data = [nodes |-> <<>>, links |-> <<>>]
    /\ crashed = FALSE
    /\ GraphIdle

\* The reconcile effect runs after every change of its dependencies; the
\* render that follows builds the neighbour map of useEnclosingCircles
CommitData(r, raws, filter, relationships, tags) ==
    /\ ~crashed
    /\ rawData' = raws
    /\ nodeFilter' = filter
    /\ showRelationships' = relationships
    /\ showTags' = tags
    /\ data' = r.data
    /\ heap' = r.heap
    /\ crashed' = neighborsThrows(r.data)

Commit(r, raws, filter, relationships, tags) ==
    /\ CommitData(r, raws, filter, relationships, tags)
    /\ UNCHANGED <<graphVars, hitVars, viewVars, mountVars, fetchVars, editVars>>

Pass(raws, filter, relationships, tags) ==
    Commit(Reconcile(data, heap, raws, filter, relationships, tags),
           raws, filter, relationships, tags)

\* A fetcher delivers its data: setData, then the onData effect
FetchCallback(i, ds) ==
    Pass([rawData EXCEPT ![i].people = ds.people, ![i].orgs = ds.orgs],
         nodeFilter, showRelationships, showTags)

\* EditDrawer saved: handleUpdateData sets the data and closes the drawer
handleUpdateData(i, ds) ==
    /\ rawData[i].editing
    /\ Pass([rawData EXCEPT ![i].people = ds.people, ![i].orgs = ds.orgs,
                            ![i].editing = FALSE],
            nodeFilter, showRelationships, showTags)

setActive(i) ==
    Pass([rawData EXCEPT ![i].active = ~@], nodeFilter, showRelationships, showTags)

setIsEditing(i) ==
    Pass([rawData EXCEPT ![i].editing = ~@], nodeFilter, showRelationships, showTags)

setNodeFilter(f) ==
    /\ f # nodeFilter
    /\ Pass(rawData, f, showRelationships, showTags)

setShowRelationships ==
    Pass(rawData, nodeFilter, ~showRelationships, showTags)

setShowTags ==
    Pass(rawData, nodeFilter, showRelationships, ~showTags)

NextApp ==
    \/ \E i \in 1..Len(rawData) : \E ds \in Datasets(rawData[i].label) : FetchCallback(i, ds)
    \/ \E i \in 1..Len(rawData) : \E ds \in Datasets(rawData[i].label) : handleUpdateData(i, ds)
    \/ \E i \in 1..Len(rawData) : setActive(i)
    \/ \E i \in 1..Len(rawData) : setIsEditing(i)
    \/ \E f \in {"all", "people", "orgs"} : setNodeFilter(f)
    \/ setShowRelationships
    \/ setShowTags

SpecApp == InitApp /\ [][NextApp]_vars

(***************************************************************************)
(* App: the sources list and the rawData entries of its sources            *)
(***************************************************************************)
MaxSources == 3

\* networks[].label, in the order of the list
networks == <<"World Wise Web", "Limicon 2024", "Limicon 2025", "Murmurations Test Index">>

\* What a NetworkOptions reports about itself when it mounts
MountEntry(label) ==
    [label |-> label, people |-> <<>>, orgs |-> <<>>, active |-> TRUE, editing |-> FALSE]

RECURSIVE LabelIndex(_, _, _)
LabelIndex(raws, label, i) ==
    IF i > Len(raws) THEN 0
    ELSE IF raws[i].label = label THEN i ELSE LabelIndex(raws, label, i + 1)

\* setRawData((prev) => ({ ...prev, [networkLabel]: data })): an existing key
\* keeps its place, a new key comes last
onDataEntry(raws, entry) ==
    IF LabelIndex(raws, entry.label, 1) = 0 THEN Append(raws, entry)
    ELSE [raws EXCEPT ![LabelIndex(raws, entry.label, 1)] = entry]

\* delete newData[source.label]
deleteEntry(raws, label) == SelectSeq(raws, LAMBDA e : e.label # label)

\* The handler's setSources and setRawData, and the reconcile effect that
\* follows the change of rawData
SourcesStep(srcs, raws) ==
    /\ sources' = srcs
    /\ CommitData(Reconcile(data, heap, raws, nodeFilter, showRelationships, showTags),
                  raws, nodeFilter, showRelationships, showTags)
    /\ UNCHANGED <<graphVars, hitVars, viewVars, mountVars, fetchVars, drawer>>

\* Add Source: networks[0] is appended; its NetworkOptions mounts and reports
AddSource ==
    /\ Len(sources) < MaxSources
    /\ SourcesStep(Append(sources, networks[1]),
                   onDataEntry(rawData, MountEntry(networks[1])))

\* The dropdown of source i: every source with its label becomes the chosen
\* network; the key of the column changes, so a new NetworkOptions mounts
\* and reports under the new label
onSelect(i, label) ==
    /\ label # sources[i]
    /\ SourcesStep([j \in 1..Len(sources) |->
                       IF sources[j] = sources[i] THEN label ELSE sources[j]],
                   onDataEntry(rawData, MountEntry(label)))

\* Remove: the sources with the label of source i are filtered out and the
\* label's entry is deleted
RemoveSource(i) ==
    SourcesStep(SelectSeq(sources, LAMBDA l : l # sources[i]),
                deleteEntry(rawData, sources[i]))

\* The file each network's fetcher delivers
Fetched(label) ==
    CASE label = networks[1] -> Dataset(<<"alice", "bob">>, <<"org">>)
      [] label = networks[2] -> Dataset(<<"alice2">>, <<"org2">>)
      [] OTHER -> EmptyDataset

\* The fetcher of source i delivers, once after its NetworkOptions has
\* mounted: setData, then the onData effect
onData(i, ds) ==
    /\ MountEntry(sources[i]) \in Range(rawData)
    /\ SourcesStep(sources,
                onDataEntry(rawData, [MountEntry(sources[i]) EXCEPT !.people = ds.people,
                                                                    !.orgs = ds.orgs]))

\* Every NetworkOptions of the initial sources has mounted and reported
InitSources ==
    /\ rawData = [i \in 1..3 |-> MountEntry(networks[i])]
    /\ heap = InitialHeap
    /\ nodeFilter = "all"
    /\ showRelationships = TRUE
    /\ showTags = FALSE
    /\ data = [nodes |-> <<>>, links |-> <<>>]
    /\ crashed = FALSE
    /\ GraphIdle

NextSources ==
    \/ AddSource
    \/ \E i \in 1..Len(sources) : \E k \in 1..Len(networks) : onSelect(i, networks[k])
    \/ \E i \in 1..Len(sources) : RemoveSource(i)
    \/ \E i \in 1..Len(sources) : onData(i, Fetched(sources[i]))

SpecSources == InitSources /\ [][NextSources]_vars

(***************************************************************************)
(* ForceGraph2D: rendering with new graphData, the effects, the simulation *)
(***************************************************************************)
MaxTicks == 2

\* The graphData props: node objects (here their ids) and links given by the
\* ids of their endpoints.  In the last two a link names a node that is not
\* in the node array
GNode(id) == [id |-> id]
GLink(s, t) == [source |-> s, target |-> t]

GraphChoices ==
    { [nodes |-> <<>>, links |-> <<>>],
      [nodes |-> <<GNode("a")>>, links |-> <<>>],
      [nodes |-> <<GNode("a"), GNode("b")>>, links |-> <<GLink("a", "b")>>],
      [nodes |-> <<GNode("a")>>, links |-> <<GLink("a", "b")>>],
      [nodes |-> <<>>, links |-> <<GLink("a", "b")>>] }

\* d3-force places a node without a position on a phyllotaxis spiral by its
\* index (radius 10 * sqrt(0.5 + i), angle i * pi * (3 - sqrt 5)); rounded
initialPosition(i) ==
    CASE i = 1 -> [x |-> Whole(7), y |-> Whole(0)]
      [] i = 2 -> [x |-> Whole(-9), y |-> Whole(8)]
      [] i = 3 -> [x |-> Whole(1), y |-> Whole(-16)]
      [] OTHER -> [x |-> Whole(11), y |-> Whole(15)]

\* simulation.nodes(nodes): initializeNodes gives a position and a zero
\* velocity to every node that has none
initializeNodes(nodes) ==
    [i \in 1..Len(nodes) |->
        IF nodes[i].hasPos THEN nodes[i]
        ELSE [nodes[i] EXCEPT !.hasPos = TRUE,
                              !.x = initialPosition(i).x, !.y = initialPosition(i).y,
                              !.vx = Zero, !.vy = Zero]]

\* forceLink resolves every endpoint id and throws "node not found" otherwise
linkEndpointsFound(nodes, links) ==
    \A i \in 1..Len(links) :
        nodeMapGet(nodes, links[i].source) # 0 /\ nodeMapGet(nodes, links[i].target) # 0

\* A render with a new graphData object: the memo makes fresh copies, while the
\* simulation still holds the node objects it was last given.  The graph data
\* is taken not to change while a drag gesture is in progress
Render(g) ==
    /\ ~crashed
    /\ mounted
    /\ ~effectsPending
    /\ ~gesture.active
    /\ graphData' = g
    /\ simNodes' = simulationData(g).nodes
    /\ simLinks' = simulationData(g).links
    /\ effectsPending' = TRUE
    /\ hoveredNode' = Replaced(hoveredNode)
    /\ hoveredLink' = Replaced(hoveredLink)
    /\ UNCHANGED <<simulation, transform, gesture, ticks>>
    /\ UNCHANGED <<appVars, hitVars, tooltip, calls, mountVars, fetchVars, editVars>>

\* The simulation effect: cleanup of the previous run (stop), then create or
\* update the simulation; nothing but the cleanup when there are no nodes
RunEffects ==
    /\ ~crashed
    /\ mounted
    /\ effectsPending
    /\ effectsPending' = FALSE
    /\ IF simNodes = <<>>
       THEN /\ simulation' = [simulation EXCEPT !.running = FALSE]
            /\ attached' = attach(attached, props)
            /\ UNCHANGED <<simNodes, crashed>>
       ELSE IF ~linkEndpointsFound(simNodes, simLinks)
       THEN /\ crashed' = TRUE
            /\ simulation' = [simulation EXCEPT !.running = FALSE]
            /\ UNCHANGED <<simNodes, attached>>
       ELSE /\ simNodes' = initializeNodes(simNodes)
            /\ attached' = attach(attached, props)
            /\ simulation' =
                 [created |-> TRUE, running |-> TRUE, alpha |-> 10,
                  alphaTarget |-> simulation.alphaTarget,
                  nodes |-> initializeNodes(simNodes),
                  links |-> simLinks]
            /\ UNCHANGED crashed
    /\ UNCHANGED <<graphData, simLinks, transform, gesture, ticks>>
    /\ UNCHANGED <<rawData, heap, nodeFilter, showRelationships, showTags, data, hitVars>>
    /\ UNCHANGED <<viewVars, props, mounted, fetchVars, editVars>>

\* What the forces can add to the free nodes' positions in one tick
Moves == {<<1, -1>>}

\* alpha in tenths: it decays towards alphaTarget, coarsely
alphaDecay(alpha, alphaTarget) ==
    IF alpha > alphaTarget + 5 THEN alpha - 5 ELSE alphaTarget

\* One simulation tick: a pinned node is put at (fx, fy) with zero velocity,
\* a free node moves by its velocity; the timer stops once alpha is spent.
\* The simulation's nodes are the objects of simulationData.nodes
tickNode(node, m) ==
    IF node.pinned
    THEN [node EXCEPT !.x = node.fx, !.y = node.fy, !.vx = Zero, !.vy = Zero]
    ELSE [node EXCEPT !.x = Add(@, Whole(m[1])), !.y = Add(@, Whole(m[2])),
                      !.vx = Whole(m[1]), !.vy = Whole(m[2])]

Tick(m) ==
    /\ ~crashed
    /\ ~effectsPending
    /\ simulation.created /\ simulation.running
    /\ ticks < MaxTicks
    /\ ticks' = ticks + 1
    /\ simNodes' = [i \in 1..Len(simNodes) |-> tickNode(simNodes[i], m)]
    /\ simulation' =
         [simulation EXCEPT
            !.alpha = alphaDecay(simulation.alpha, simulation.alphaTarget),
            !.running = alphaDecay(simulation.alpha, simulation.alphaTarget) > 0,
            !.nodes = [i \in 1..Len(simNodes) |-> tickNode(simNodes[i], m)]]
    /\ UNCHANGED <<graphData, simLinks, transform, effectsPending, gesture>>
    /\ UNCHANGED <<appVars, hitVars, viewVars, mountVars, fetchVars, editVars>>

\* The requested transforms: scale (possibly beyond the extent) and translation
ZoomRequests ==
    { [k |-> Rat(1, 20), t |-> <<0, 0>>],
      [k |-> Whole(20), t |-> <<4, -2>>] }

\* A variant without the scale extent
constrainScale_unbounded(k) == k

\* d3-zoom's scale(): Math.max(scaleExtent[0], Math.min(scaleExtent[1], k))
constrainScale(k) == RMax(scaleExtentMin, RMin(scaleExtentMax, k))

\* A variant whose handler also reheats and restarts the simulation
Zoom_restarting(k, t) ==
    /\ ~crashed
    /\ mounted
    /\ attached.zoom
    /\ ~effectsPending
    /\ ~gesture.active
    /\ transform' = [k |-> constrainScale(k), x |-> Whole(t[1]), y |-> Whole(t[2])]
    /\ transform' # transform
    /\ simulation' = IF simulation.created
                     THEN [simulation EXCEPT !.alpha = 10, !.running = TRUE]
                     ELSE simulation
    /\ UNCHANGED <<graphData, simNodes, simLinks, effectsPending, gesture, ticks>>
    /\ UNCHANGED <<appVars, hitVars, viewVars, mountVars, fetchVars, editVars>>

\* The zoom handler: d3-zoom keeps the scale within scaleExtent.  A zoom gesture
\* and a drag gesture do not overlap
Zoom(k, t) ==
    /\ ~crashed
    /\ mounted
    /\ attached.zoom
    /\ ~effectsPending
    /\ ~gesture.active
    /\ transform' = [k |-> constrainScale(k), x |-> Whole(t[1]), y |-> Whole(t[2])]
    /\ transform' # transform
    /\ UNCHANGED <<graphData, simNodes, simLinks, simulation, effectsPending, gesture, ticks>>
    /\ UNCHANGED <<appVars, hitVars, viewVars, mountVars, fetchVars, editVars>>

\* Where the pointer can be: on a node's centre or at an offset from it (world
\* units), or at the canvas origin
DragOffsets == {<<0, 0>>, <<-4, 2>>, <<0, 9>>}

PointerChoices ==
    {[x |-> Zero, y |-> Zero]}
    \cup {screenOf(transform, Add(simNodes[i].x, Whole(o[1])), Add(simNodes[i].y, Whole(o[2]))) :
            i \in {j \in 1..Len(simNodes) : simNodes[j].hasPos}, o \in DragOffsets}

setPin(nodes, i, fx, fy) ==
    [nodes EXCEPT ![i] = [@ EXCEPT !.pinned = TRUE, !.fx = fx, !.fy = fy]]

clearPin(nodes, i) ==
    [nodes EXCEPT ![i] = [@ EXCEPT !.pinned = FALSE, !.fx = Zero, !.fy = Zero]]

\* dragBehavior 'start'
dragStart(p) ==
    LET node == getNodeAtPosition(simNodes, transform, p.x, p.y)
        simNode == IF node = 0 THEN 0 ELSE nodeMapGet(simNodes, simNodes[node].id)
    IN /\ ~crashed
       /\ mounted
       /\ attached.drag
       /\ ~effectsPending
       /\ ~gesture.active
       /\ gesture' = [active |-> TRUE, startedOn |-> node]
       /\ IF node # 0 /\ simulation.created
          THEN /\ simNodes' = setPin(simNodes, simNode, simNodes[simNode].x, simNodes[simNode].y)
               /\ simulation' = [simulation EXCEPT !.alphaTarget = 3, !.running = TRUE,
                                                    !.nodes = simNodes']
          ELSE UNCHANGED <<simulation, simNodes>>
       /\ UNCHANGED <<graphData, simLinks, transform, effectsPending, ticks>>
       /\ UNCHANGED <<appVars, hitVars, viewVars, mountVars, fetchVars, editVars>>

\* dragBehavior 'drag'
dragMove(p) ==
    LET node == getNodeAtPosition(simNodes, transform, p.x, p.y)
        simNode == IF node = 0 THEN 0 ELSE nodeMapGet(simNodes, simNodes[node].id)
        a == adjusted(transform, p.x, p.y)
    IN /\ ~crashed
       /\ ~effectsPending
       /\ gesture.active
       /\ UNCHANGED gesture
       /\ IF node # 0
          THEN /\ simNodes' = setPin(simNodes, simNode, a.x, a.y)
               /\ simulation' = [simulation EXCEPT !.nodes = simNodes']
          ELSE UNCHANGED <<simNodes, simulation>>
       /\ UNCHANGED <<graphData, simLinks, transform, effectsPending, ticks>>
       /\ UNCHANGED <<appVars, hitVars, viewVars, mountVars, fetchVars, editVars>>

\* dragBehavior 'end', at the position of the pointer's release
dragEnd(p) ==
    LET node == getNodeAtPosition(simNodes, transform, p.x, p.y)
        simNode == IF node = 0 THEN 0 ELSE nodeMapGet(simNodes, simNodes[node].id)
    IN /\ ~crashed
       /\ ~effectsPending
       /\ gesture.active
       /\ gesture' = NoGesture
       /\ simNodes' = IF node # 0 THEN clearPin(simNodes, simNode)
                      ELSE simNodes
       /\ simulation' = IF ~simulation.created THEN simulation
                        ELSE IF simNodes = <<>> THEN [simulation EXCEPT !.alphaTarget = 0]
                        ELSE [simulation EXCEPT !.alphaTarget = 0, !.nodes = simNodes']
       /\ UNCHANGED <<graphData, simLinks, transform, effectsPending, ticks>>
       /\ UNCHANGED <<appVars, hitVars, viewVars, mountVars, fetchVars, editVars>>

AppIdle ==
    /\ rawData = <<>>
    /\ heap = InitialHeap
    /\ nodeFilter = "all"
    /\ showRelationships = TRUE
    /\ showTags = FALSE
    /\ data = [nodes |-> <<>>, links |-> <<>>]
    /\ crashed = FALSE

InitGraph == AppIdle /\ GraphIdle

NextGraph ==
    \/ \E g \in GraphChoices : Render(g)
    \/ RunEffects
    \/ \E m \in Moves : Tick(m)
    \/ \E z \in ZoomRequests : Zoom(z.k, z.t)
    \/ \E p \in PointerChoices : dragStart(p)
    \/ \E p \in PointerChoices : dragMove(p)
    \/ \E p \in PointerChoices : dragEnd(p)

SpecGraph == InitGraph /\ [][NextGraph]_vars

(***************************************************************************)
(* getLinksFromRelationships applied to enumerated people and orgs         *)
(***************************************************************************)
\* People with relationships of every predicate; some objects are not among
\* the records of any choice (u:dave, u:guild)
RelPeople ==
    <<Rec("Alice", "u:alice", "", <<>>, <<Rel(knows, "u:bob", 1)>>, PeopleSchema),
      Rec("Bob", "u:bob", "", <<>>,
          <<Rel(memberOf, "u:org", 2), Rel(maintainer, "u:proj", 3)>>, PeopleSchema),
      Rec("Carol", "u:carol", "", <<>>,
          <<Rel(knows, "u:dave", 4), Rel(memberOf, "u:guild", 5), Rel(knows, "u:org", 6)>>,
          PeopleSchema)>>

\* Organizations (projects are organization records): a project that is a
\* member of an organization and requires a library
RelOrgs ==
    <<Rec("Org", "u:org", "", <<>>, <<>>, OrgsSchema),
      Rec("Proj", "u:proj", "", <<>>,
          <<Rel(memberOf, "u:org", 7), Rel(softwareRequirement, "u:lib", 8)>>, OrgsSchema),
      Rec("Lib", "u:lib", "", <<>>, <<Rel(softwareRequirement, "u:guild", 9)>>, OrgsSchema)>>

\* The records of s at the indices in S, in order
RECURSIVE Pick(_, _, _)
Pick(s, S, i) ==
    IF i > Len(s) THEN <<>>
    ELSE (IF i \in S THEN <<s[i]>> ELSE <<>>) \o Pick(s, S, i + 1)

CallGetLinks ==
    /\ ~relCall.called
    /\ relCall' = [relCall EXCEPT !.called = TRUE,
                                  !.result = getLinksFromRelationships(relCall.people,
                                                                       relCall.orgs)]
    /\ UNCHANGED <<appVars, graphVars, probe, viewVars, mountVars, fetchVars, editVars>>

InitLinks ==
    /\ AppIdle
    /\ graphData = [nodes |-> <<>>, links |-> <<>>]
    /\ simNodes = <<>>
    /\ simLinks = <<>>
    /\ simulation = NoSim
    /\ transform = IdentityTransform
    /\ effectsPending = FALSE
    /\ gesture = NoGesture
    /\ ticks = 0
    /\ probe = NoProbe
    /\ NoHover
    /\ Mounted
    /\ NoFetch
    /\ NoEdit
    /\ \E P \in SUBSET (1..Len(RelPeople)) : \E O \in SUBSET (1..Len(RelOrgs)) :
         relCall = [called |-> FALSE, people |-> Pick(RelPeople, P, 1),
                    orgs |-> Pick(RelOrgs, O, 1), result |-> <<>>]

NextLinks == CallGetLinks

SpecLinks == InitLinks /\ [][NextLinks]_vars

(***************************************************************************)
(* ForceGraph2D: the mouse handlers of the canvas (hover state, tooltip)   *)
(***************************************************************************)
HoverCall(fn, new, previous) == [fn |-> fn, new |-> new, previous |-> previous]

\* handleMouseMove once its two hit-tests are made: node is the node under
\* the pointer, link the link under it (looked up only when there is no
\* node).  nodeLabel and linkLabel are supplied and give the element's id
MouseMoveNode_keepingLink(p, node) ==
    /\ hoveredNode' = node
    /\ hoveredLink' = hoveredLink
    /\ calls' = (IF node # hoveredNode
                 THEN <<HoverCall("onNodeHover", node, hoveredNode)>> ELSE <<>>)
    /\ tooltip' = IF node # hoveredNode THEN Tooltip(p, node) ELSE tooltip

MouseMoveNode(p, node) ==
    /\ hoveredNode' = node
    /\ hoveredLink' = NoTarget
    /\ calls' = (IF node # hoveredNode
                 THEN <<HoverCall("onNodeHover", node, hoveredNode)>> ELSE <<>>)
                \o (IF hoveredLink # NoTarget
                    THEN <<HoverCall("onLinkHover", NoTarget, hoveredLink)>> ELSE <<>>)
    /\ tooltip' = IF node # hoveredNode THEN Tooltip(p, node) ELSE tooltip

MouseMoveLink(p, link) ==
    /\ hoveredNode' = NoTarget
    /\ hoveredLink' = link
    /\ calls' = (IF NoTarget # hoveredNode
                 THEN <<HoverCall("onNodeHover", NoTarget, hoveredNode)>> ELSE <<>>)
                \o (IF link # hoveredLink
                    THEN <<HoverCall("onLinkHover", link, hoveredLink)>> ELSE <<>>)
    /\ tooltip' = IF link # hoveredLink THEN Tooltip(p, link)
                  ELSE IF NoTarget # hoveredNode THEN NoTooltip
                  ELSE tooltip

handleMouseMove(p) ==
    /\ ~crashed
    /\ mounted
    /\ ~gesture.active
    /\ IF getNodeAtPosition(simNodes, transform, p.x, p.y) # 0
       THEN MouseMoveNode(p, NodeTarget(simNodes, getNodeAtPosition(simNodes, transform, p.x, p.y)))
       ELSE MouseMoveLink(p, LinkTarget(simLinks,
                                getLinkAtPosition(simNodes, simLinks, transform, p.x, p.y)))
    /\ UNCHANGED <<appVars, graphVars, hitVars, mountVars, fetchVars, editVars>>

handleMouseLeave ==
    /\ ~crashed
    /\ mounted
    /\ ~gesture.active
    /\ calls' = (IF hoveredNode # NoTarget
                 THEN <<HoverCall("onNodeHover", NoTarget, hoveredNode)>> ELSE <<>>)
                \o (IF hoveredLink # NoTarget
                    THEN <<HoverCall("onLinkHover", NoTarget, hoveredLink)>> ELSE <<>>)
    /\ hoveredNode' = NoTarget
    /\ hoveredLink' = NoTarget
    /\ tooltip' = NoTooltip
    /\ UNCHANGED <<appVars, graphVars, hitVars, mountVars, fetchVars, editVars>>

\* onNodeClick?.(node, event.nativeEvent) / onLinkClick?.(link, event.nativeEvent)
ClickCall(fn, target) == [fn |-> fn, new |-> target, previous |-> NoTarget]

\* The click callbacks handleClick invokes, given its two hit-test results
clickCalls(node, link) ==
    IF node # 0 THEN <<ClickCall("onNodeClick", NodeTarget(simNodes, node))>>
    ELSE IF link # 0 THEN <<ClickCall("onLinkClick", LinkTarget(simLinks, link))>>
    ELSE <<>>

\* handleClick with the link looked up first
handleClick_linkFirst(p) ==
    /\ ~crashed
    /\ mounted
    /\ ~gesture.active
    /\ probe' =
         IF getLinkAtPosition(simNodes, simLinks, transform, p.x, p.y) # 0
         THEN [called |-> "onLinkClick", x |-> p.x, y |-> p.y,
               result |-> getLinkAtPosition(simNodes, simLinks, transform, p.x, p.y)]
         ELSE IF getNodeAtPosition(simNodes, transform, p.x, p.y) # 0
         THEN [called |-> "onNodeClick", x |-> p.x, y |-> p.y,
               result |-> getNodeAtPosition(simNodes, transform, p.x, p.y)]
         ELSE [called |-> "none", x |-> p.x, y |-> p.y, result |-> 0]
    /\ calls' = clickCalls(IF getLinkAtPosition(simNodes, simLinks, transform, p.x, p.y) # 0
                           THEN 0 ELSE getNodeAtPosition(simNodes, transform, p.x, p.y),
                           getLinkAtPosition(simNodes, simLinks, transform, p.x, p.y))
    /\ UNCHANGED <<appVars, graphVars, hoveredNode, hoveredLink, tooltip, mountVars,
                   fetchVars, editVars, relCall>>

\* handleClick: onNodeClick for the node under the pointer, else onLinkClick
\* for the link under it
handleClick(p) ==
    /\ ~crashed
    /\ mounted
    /\ ~gesture.active
    /\ probe' =
         IF getNodeAtPosition(simNodes, transform, p.x, p.y) # 0
         THEN [called |-> "onNodeClick", x |-> p.x, y |-> p.y,
               result |-> getNodeAtPosition(simNodes, transform, p.x, p.y)]
         ELSE IF getLinkAtPosition(simNodes, simLinks, transform, p.x, p.y) # 0
         THEN [called |-> "onLinkClick", x |-> p.x, y |-> p.y,
               result |-> getLinkAtPosition(simNodes, simLinks, transform, p.x, p.y)]
         ELSE [called |-> "none", x |-> p.x, y |-> p.y, result |-> 0]
    /\ calls' = clickCalls(getNodeAtPosition(simNodes, transform, p.x, p.y),
                           getLinkAtPosition(simNodes, simLinks, transform, p.x, p.y))
    /\ UNCHANGED <<appVars, graphVars, hoveredNode, hoveredLink, tooltip, mountVars,
                   fetchVars, editVars, relCall>>

NextHover ==
    \/ \E g \in GraphChoices : Render(g)
    \/ RunEffects
    \/ \E m \in Moves : Tick(m)
    \/ \E p \in PointerChoices : handleMouseMove(p)
    \/ handleMouseLeave

SpecHover == InitGraph /\ [][NextHover]_vars

(***************************************************************************)
(* ForceGraph2D: every handler of the view over one graph                  *)
(***************************************************************************)
ViewGraph == [nodes |-> <<GNode("a")>>, links |-> <<>>]

\* Where the mouse is moved and clicked: the screen point at which node a is
\* first placed
ViewPointers == {[x |-> initialPosition(1).x, y |-> initialPosition(1).y]}

NextView ==
    \/ Render(ViewGraph)
    \/ RunEffects
    \/ \E m \in Moves : Tick(m)
    \/ \E z \in ZoomRequests : Zoom(z.k, z.t)
    \/ \E p \in PointerChoices : dragStart(p)
    \/ \E p \in PointerChoices : dragMove(p)
    \/ \E p \in PointerChoices : dragEnd(p)
    \/ \E p \in ViewPointers : handleMouseMove(p)
    \/ handleMouseLeave
    \/ \E p \in ViewPointers : handleClick(p)

SpecView == InitGraph /\ [][NextView]_vars

(***************************************************************************)
(* ForceGraph2D: the interaction props change, the component unmounts      *)
(***************************************************************************)
PropsChoices ==
    [enableZoomInteraction : BOOLEAN, enablePanInteraction : BOOLEAN,
     enableNodeDrag : BOOLEAN]

\* A render with other interaction props: the zoom/drag effect runs again
\* (the props are among its dependencies), the simulation effect does not
RenderProps(p) ==
    /\ ~crashed
    /\ mounted
    /\ ~effectsPending
    /\ ~gesture.active
    /\ p # props
    /\ props' = p
    /\ attached' = attach(attached, p)
    /\ UNCHANGED mounted
    /\ UNCHANGED <<appVars, graphVars, hitVars, viewVars, fetchVars, editVars>>

\* The component unmounts: the cleanup of the simulation effect stops the
\* simulation; the zoom/drag effect has no cleanup.  The listeners a gesture
\* in progress has on the window go on receiving the pointer's events
Unmount ==
    /\ ~crashed
    /\ mounted
    /\ ~effectsPending
    /\ mounted' = FALSE
    /\ simulation' = [simulation EXCEPT !.running = FALSE]
    /\ UNCHANGED <<props, attached>>
    /\ UNCHANGED <<graphData, simNodes, simLinks, transform, effectsPending, gesture, ticks>>
    /\ UNCHANGED <<appVars, hitVars, viewVars, fetchVars, editVars>>

\* Where a drag on the background can take the view: the zoom listener is
\* called with the scale unchanged and a new translation
PanRequests == {<<-6, 3>>}

NextInteract ==
    \/ Render(ViewGraph)
    \/ RunEffects
    \/ \E m \in Moves : Tick(m)
    \/ \E p \in PropsChoices : RenderProps(p)
    \/ \E z \in ZoomRequests : Zoom(z.k, z.t)
    \/ \E t \in PanRequests : Zoom(transform.k, t)
    \/ \E p \in PointerChoices : dragStart(p)
    \/ \E p \in PointerChoices : dragMove(p)
    \/ \E p \in PointerChoices : dragEnd(p)
    \/ Unmount

\* Mounted with any interaction props
InitInteract ==
    /\ AppIdle
    /\ ForceGraphIdle
    /\ NoFetch
    /\ NoEdit
    /\ \E p \in PropsChoices : MountedWith(p)

SpecInteract == InitInteract /\ [][NextInteract]_vars

(***************************************************************************)
(* NetworkOptions: the fetch effect and the fetchers of `networks`         *)
(***************************************************************************)
maxPages == 5

\* total_pages as the index can report it for a schema
TotalPages == {1, 2, 6}

FetchCall(fn, f) == [fn |-> fn, aborted |-> f.aborted, done |-> FALSE]

\* callback({ people, orgs, done })
callback(f, done) == [FetchCall("callback", f) EXCEPT !.done = done]

\* The fetch effect has called props.network.value(signal, callback, onError):
\* the first request (flat sources) or the two first pages (the paged
\* index) are in flight
StartFetcher(kind) ==
    [kind |-> kind, pc |-> "first", aborted |-> FALSE,
     peoplePage |-> 1, orgsPage |-> 1, totalPeoplePages |-> -1, totalOrgsPages |-> -1,
     people |-> 0, orgs |-> 0]

\* The callbacks given by the fetch effect: setData of the response, and
\* setData({ people: [], orgs: [] }) on error
DataAfter(f, callList) ==
    IF callList = <<>> THEN netData
    ELSE IF callList[Len(callList)].fn = "onError" THEN [people |-> 0, orgs |-> 0]
    ELSE [people |-> f.people, orgs |-> f.orgs]

\* A step of the fetcher: its new state f and the callbacks it invoked
FetcherStep(f, callList) ==
    /\ fetcher' = f
    /\ fetchCalls' = callList
    /\ netData' = DataAfter(f, callList)
    /\ UNCHANGED <<appVars, graphVars, hitVars, viewVars, mountVars, editVars>>

\* The cleanup of the fetch effect: abortController.abort()
abort ==
    /\ fetcher.kind # "none"
    /\ ~fetcher.aborted
    /\ fetcher' = [fetcher EXCEPT !.aborted = TRUE]
    /\ fetchCalls' = <<>>
    /\ UNCHANGED netData
    /\ UNCHANGED <<appVars, graphVars, hitVars, viewVars, mountVars, editVars>>

\* flatMurmurationsMap / flatKumuMap: fetchJSON resolves or rejects
flatMap(ok) ==
    /\ fetcher.kind = "flat"
    /\ fetcher.pc = "first"
    /\ IF fetcher.aborted
       THEN FetcherStep([fetcher EXCEPT !.pc = "done"], <<>>)
       ELSE IF ok
       THEN FetcherStep([fetcher EXCEPT !.pc = "done", !.people = 1, !.orgs = 1],
                        <<callback(fetcher, TRUE)>>)
       ELSE FetcherStep([fetcher EXCEPT !.pc = "done"], <<FetchCall("onError", fetcher)>>)

\* fetchPage: onError is called in its catch block, and an empty page with
\* total_pages 0 is returned
fetchPageCalls(ok, f) == IF ok THEN <<>> ELSE <<FetchCall("onError", f)>>

\* The while loop without its page cap
pagesLoop_uncapped(f, callList) ==
    IF f.peoplePage < f.totalPeoplePages \/ f.orgsPage < f.totalOrgsPages
    THEN IF f.peoplePage < f.totalPeoplePages
         THEN FetcherStep([f EXCEPT !.peoplePage = @ + 1, !.pc = "people"],
                          callList \o <<callback(f, FALSE)>>)
         ELSE FetcherStep([f EXCEPT !.orgsPage = @ + 1, !.pc = "orgs"],
                          callList \o <<callback(f, FALSE)>>)
    ELSE FetcherStep([f EXCEPT !.pc = "done"], callList \o <<callback(f, TRUE)>>)

\* The while loop of the paged fetcher from its head, up to the next await
\* or to the final callback
pagesLoop(f, callList) ==
    IF /\ (f.peoplePage < f.totalPeoplePages \/ f.orgsPage < f.totalOrgsPages)
       /\ f.peoplePage < maxPages
       /\ f.orgsPage < maxPages
    THEN IF f.peoplePage < f.totalPeoplePages
         THEN FetcherStep([f EXCEPT !.peoplePage = @ + 1, !.pc = "people"],
                          callList \o <<callback(f, FALSE)>>)
         ELSE FetcherStep([f EXCEPT !.orgsPage = @ + 1, !.pc = "orgs"],
                          callList \o <<callback(f, FALSE)>>)
    ELSE FetcherStep([f EXCEPT !.pc = "done"], callList \o <<callback(f, TRUE)>>)

\* Promise.all of the two first pages has settled
firstPages(f, callList) ==
    IF f.aborted THEN FetcherStep([f EXCEPT !.pc = "done"], callList)
    ELSE IF f.totalOrgsPages = 1 /\ f.totalPeoplePages = 1
    THEN FetcherStep([f EXCEPT !.pc = "done"], callList \o <<callback(f, TRUE)>>)
    ELSE pagesLoop(f, callList)

\* One of the two first pages arrives (ok, reporting total pages) or fails
firstPeoplePage(ok, total) ==
    /\ fetcher.kind = "paged"
    /\ fetcher.pc = "first"
    /\ fetcher.totalPeoplePages = -1
    /\ IF fetcher.totalOrgsPages = -1
       THEN FetcherStep([fetcher EXCEPT !.totalPeoplePages = IF ok THEN total ELSE 0,
                                        !.people = IF ok THEN 1 ELSE 0],
                        fetchPageCalls(ok, fetcher))
       ELSE firstPages([fetcher EXCEPT !.totalPeoplePages = IF ok THEN total ELSE 0,
                                       !.people = IF ok THEN 1 ELSE 0],
                       fetchPageCalls(ok, fetcher))

firstOrgsPage(ok, total) ==
    /\ fetcher.kind = "paged"
    /\ fetcher.pc = "first"
    /\ fetcher.totalOrgsPages = -1
    /\ IF fetcher.totalPeoplePages = -1
       THEN FetcherStep([fetcher EXCEPT !.totalOrgsPages = IF ok THEN total ELSE 0,
                                        !.orgs = IF ok THEN 1 ELSE 0],
                        fetchPageCalls(ok, fetcher))
       ELSE firstPages([fetcher EXCEPT !.totalOrgsPages = IF ok THEN total ELSE 0,
                                       !.orgs = IF ok THEN 1 ELSE 0],
                       fetchPageCalls(ok, fetcher))

\* A further page of people arrives or fails
nextPeoplePage(ok) ==
    /\ fetcher.kind = "paged"
    /\ fetcher.pc = "people"
    /\ IF fetcher.aborted
       THEN FetcherStep([fetcher EXCEPT !.pc = "done"], fetchPageCalls(ok, fetcher))
       ELSE IF fetcher.orgsPage < fetcher.totalOrgsPages
       THEN FetcherStep([fetcher EXCEPT !.people = IF ok THEN @ + 1 ELSE @,
                                        !.orgsPage = @ + 1, !.pc = "orgs"],
                        fetchPageCalls(ok, fetcher))
       ELSE pagesLoop([fetcher EXCEPT !.people = IF ok THEN @ + 1 ELSE @],
                      fetchPageCalls(ok, fetcher))

\* A further page of organizations arrives or fails
nextOrgsPage(ok) ==
    /\ fetcher.kind = "paged"
    /\ fetcher.pc = "orgs"
    /\ IF fetcher.aborted
       THEN FetcherStep([fetcher EXCEPT !.pc = "done"], fetchPageCalls(ok, fetcher))
       ELSE pagesLoop([fetcher EXCEPT !.orgs = IF ok THEN @ + 1 ELSE @],
                      fetchPageCalls(ok, fetcher))

InitFetch ==
    /\ AppIdle
    /\ ForceGraphIdle
    /\ Mounted
    /\ NoEdit
    /\ \E kind \in {"flat", "paged"} : fetcher = StartFetcher(kind)
    /\ netData = [people |-> 0, orgs |-> 0]
    /\ fetchCalls = <<>>

NextFetch ==
    \/ abort
    \/ \E ok \in BOOLEAN : flatMap(ok)
    \/ \E ok \in BOOLEAN : \E total \in TotalPages : firstPeoplePage(ok, total)
    \/ \E ok \in BOOLEAN : \E total \in TotalPages : firstOrgsPage(ok, total)
    \/ \E ok \in BOOLEAN : nextPeoplePage(ok)
    \/ \E ok \in BOOLEAN : nextOrgsPage(ok)

SpecFetch == InitFetch /\ [][NextFetch]_vars

\* Every request the fetcher awaits settles: fetch resolves or rejects
settle ==
    \/ \E ok \in BOOLEAN : flatMap(ok)
    \/ \E ok \in BOOLEAN : \E total \in TotalPages : firstPeoplePage(ok, total)
    \/ \E ok \in BOOLEAN : \E total \in TotalPages : firstOrgsPage(ok, total)
    \/ \E ok \in BOOLEAN : nextPeoplePage(ok)
    \/ \E ok \in BOOLEAN : nextOrgsPage(ok)

SpecFetchFair == InitFetch /\ [][NextFetch]_vars /\ WF_vars(settle)

(***************************************************************************)
(* ForceGraph2D: the hit-testing functions applied to enumerated inputs    *)
(***************************************************************************)
\* A simulation node the simulation has placed at whole coordinates
Placed(id, x, y) ==
    [SimNode(GNode(id)) EXCEPT !.hasPos = TRUE, !.x = Whole(x), !.y = Whole(y)]

\* Layouts of simulationData: nodes apart; two nodes closer than nodeSize;
\* a link from a node to itself, and two links over the same segment (a
\* person who knows themselves, two people who know each other); the fresh
\* copies of a render whose simulation effect has not run yet
HitLayouts ==
    { [nodes |-> <<Placed("a", 0, 0), Placed("b", 30, 0), Placed("c", 30, 40)>>,
       links |-> <<GLink("a", "b"), GLink("b", "c")>>],
      [nodes |-> <<Placed("a", 7, 0), Placed("b", 4, 4)>>,
       links |-> <<GLink("a", "b")>>],
      [nodes |-> <<Placed("a", 0, 0), Placed("b", 30, 0)>>,
       links |-> <<GLink("a", "a"), GLink("a", "b"), GLink("b", "a")>>],
      [nodes |-> <<SimNode(GNode("a")), SimNode(GNode("b"))>>,
       links |-> <<GLink("a", "b")>>] }

\* View transforms d3-zoom can deliver: the scale stays within scaleExtent
HitTransforms ==
    { IdentityTransform,
      [k |-> scaleExtentMin, x |-> Zero, y |-> Zero],
      [k |-> Rat(1, 2), x |-> Whole(-6), y |-> Whole(3)],
      [k |-> Whole(2), x |-> Whole(40), y |-> Whole(-20)],
      [k |-> scaleExtentMax, x |-> Zero, y |-> Zero] }

\* The world points pointer positions are chosen around: the centres of the
\* placed nodes and the midpoints of the links between placed nodes
HitAnchors ==
    { [x |-> simNodes[i].x, y |-> simNodes[i].y] :
        i \in {j \in 1..Len(simNodes) : simNodes[j].hasPos} }
    \cup
    { LET s == simNodes[nodeMapGet(simNodes, simLinks[i].source)]
          t == simNodes[nodeMapGet(simNodes, simLinks[i].target)]
      IN [x |-> Div(Add(s.x, t.x), Whole(2)), y |-> Div(Add(s.y, t.y), Whole(2))] :
        i \in {j \in 1..Len(simLinks) :
                 /\ nodeMapGet(simNodes, simLinks[j].source) # 0
                 /\ nodeMapGet(simNodes, simLinks[j].target) # 0
                 /\ simNodes[nodeMapGet(simNodes, simLinks[j].source)].hasPos
                 /\ simNodes[nodeMapGet(simNodes, simLinks[j].target)].hasPos} }

\* Offsets from an anchor in screen pixels and in world units
PixelOffsets == {<<0, 0>>, <<0, 4>>, <<0, 6>>, <<-3, 4>>}
WorldOffsets == {<<3, 0>>, <<0, -6>>, <<8, 0>>}

\* The pointer positions (event.offsetX, event.offsetY) tried
PointerPositions ==
    {[x |-> Zero, y |-> Zero]}
    \cup { LET c == screenOf(transform, w.x, w.y)
           IN [x |-> Add(c.x, Whole(o[1])), y |-> Add(c.y, Whole(o[2]))] :
             w \in HitAnchors, o \in PixelOffsets }
    \cup { screenOf(transform, Add(w.x, Whole(o[1])), Add(w.y, Whole(o[2]))) :
             w \in HitAnchors, o \in WorldOffsets }

\* A call of getNodeAtPosition(x, y)
HitTestNode(p) ==
    /\ probe' = [called |-> "node", x |-> p.x, y |-> p.y,
                 result |-> getNodeAtPosition(simNodes, transform, p.x, p.y)]
    /\ UNCHANGED <<appVars, graphVars, viewVars, mountVars, fetchVars, editVars, relCall>>

\* A call of getLinkAtPosition(x, y)
HitTestLink(p) ==
    /\ probe' = [called |-> "link", x |-> p.x, y |-> p.y,
                 result |-> getLinkAtPosition(simNodes, simLinks, transform, p.x, p.y)]
    /\ UNCHANGED <<appVars, graphVars, viewVars, mountVars, fetchVars, editVars, relCall>>

InitHit ==
    /\ AppIdle
    /\ \E layout \in HitLayouts : \E tr \in HitTransforms :
         /\ graphData = [nodes |-> [i \in 1..Len(layout.nodes) |-> GNode(layout.nodes[i].id)],
                         links |-> layout.links]
         /\ simNodes = layout.nodes
         /\ simLinks = layout.links
         /\ effectsPending = (\E i \in 1..Len(layout.nodes) : ~layout.nodes[i].hasPos)
         /\ simulation = IF effectsPending THEN NoSim
                         ELSE [created |-> TRUE, running |-> FALSE, alpha |-> 0,
                               alphaTarget |-> 0, nodes |-> layout.nodes,
                               links |-> layout.links]
         /\ transform = tr
    /\ gesture = NoGesture
    /\ ticks = 0
    /\ probe = NoProbe
    /\ relCall = NoRelCall
    /\ NoHover
    /\ Mounted
    /\ NoFetch
    /\ NoEdit

NextHit ==
    \/ \E p \in PointerPositions : HitTestNode(p)
    \/ \E p \in PointerPositions : HitTestLink(p)

SpecHit == InitHit /\ [][NextHit]_vars

(***************************************************************************)
(* ForceGraph2D: the mouse handlers over the enumerated layouts            *)
(***************************************************************************)
\* Where the mouse is moved and clicked: the canvas origin, the centres of
\* the placed nodes (where the links that end there are hit too) and the
\* midpoints of the links
PointerSpots ==
    {[x |-> Zero, y |-> Zero]} \cup {screenOf(transform, w.x, w.y) : w \in HitAnchors}

NextPointer ==
    \/ \E p \in PointerSpots : handleMouseMove(p)
    \/ handleMouseLeave
    \/ \E p \in PointerSpots : handleClick(p)

SpecPointer == InitHit /\ [][NextPointer]_vars

(***************************************************************************)
(* EditDrawer: the form, its effect and its handlers                       *)
(***************************************************************************)
MaxFormRelationships == 1

\* A Person or Organization as the drawer reads and writes it (the fields
\* the form passes through unchanged, and the type tag of the form that the
\* spread copies into the saved object, are left out)
Entity(nm, primary, profile, rels) ==
    [name |-> nm, primary_url |-> primary, profile_url |-> profile, relationships |-> rels]

FormRel(p, o) == [predicate_url |-> p, object_url |-> o]

Ann == Entity("Ann", "u:ann", "u:ann", <<FormRel(knows, "u:org")>>)
Ben == Entity("Ben", "u:ben", "u:ben", <<>>)
Hub == Entity("Hub", "u:hub", "u:hub", <<>>)

\* The lists the source of the drawer can deliver
DrawerData ==
    {[people |-> <<>>, organizations |-> <<>>],
     [people |-> <<Ann, Ben>>, organizations |-> <<Hub>>],
     [people |-> <<Ben>>, organizations |-> <<>>]}

\* Array.prototype.findIndex / find on profile_url: the first match, 0 for none
RECURSIVE findIndex(_, _, _)
findIndex(list, id, i) ==
    IF i > Len(list) THEN 0
    ELSE IF list[i].profile_url = id THEN i ELSE findIndex(list, id, i + 1)

FormOf(e, type) ==
    [type |-> type, name |-> e.name, primary_url |-> e.primary_url,
     profile_url |-> e.profile_url,
     relationships |-> [j \in 1..Len(e.relationships) |->
                          FormRel(e.relationships[j].predicate_url,
                                  e.relationships[j].object_url)]]

\* Initialize form when editing existing node; reset form for adding new node
formEffect(d) ==
    IF d.editMode = "edit" /\ d.selectedNodeId # ""
    THEN IF findIndex(d.people, d.selectedNodeId, 1) # 0
         THEN [d EXCEPT
                !.formData = FormOf(d.people[findIndex(d.people, d.selectedNodeId, 1)],
                                    "person"),
                !.nodeType = "person"]
         ELSE IF findIndex(d.organizations, d.selectedNodeId, 1) # 0
         THEN [d EXCEPT
                !.formData = FormOf(d.organizations[findIndex(d.organizations,
                                                              d.selectedNodeId, 1)],
                                    "organization"),
                !.nodeType = "organization"]
         ELSE d
    ELSE [d EXCEPT !.formData = EmptyForm(d.nodeType)]

\* A handler of the drawer ran: the new state, after the effect if a
\* dependency changed
DrawerStep(d) ==
    /\ drawer' = d
    /\ UNCHANGED <<appVars, graphVars, hitVars, viewVars, mountVars, fetchVars, sources>>

\* The Edit Network / Close Editor button of NetworkOptions, the x and Cancel.
\* The editor is opened over the lists as the source delivered them: a second
\* editing session over saved lists is not explored.
toggleEditor ==
    /\ drawer.isOpen
       \/ [people |-> drawer.people, organizations |-> drawer.organizations] \in DrawerData
    /\ DrawerStep([drawer EXCEPT !.isOpen = ~@, !.saved = NoSave])

\* The source delivers data: the people and organizations props change
drawerData(ds) ==
    /\ ds.people # drawer.people \/ ds.organizations # drawer.organizations
    /\ DrawerStep(formEffect([drawer EXCEPT !.people = ds.people,
                                            !.organizations = ds.organizations,
                                            !.saved = NoSave]))

\* Radio "Add New Node": setEditMode('add'), setSelectedNodeId(null)
selectAddMode ==
    /\ drawer.isOpen
    /\ drawer.editMode # "add"
    /\ DrawerStep(formEffect([drawer EXCEPT !.editMode = "add", !.selectedNodeId = "",
                                            !.saved = NoSave]))

\* Radio "Edit Existing Node": setEditMode('edit')
selectEditMode ==
    /\ drawer.isOpen
    /\ drawer.editMode # "edit"
    /\ DrawerStep(formEffect([drawer EXCEPT !.editMode = "edit", !.saved = NoSave]))

\* The values of the "Select Node to Edit" options
NodeOptions(d) ==
    {""} \cup {d.people[i].profile_url : i \in 1..Len(d.people)}
         \cup {d.organizations[i].profile_url : i \in 1..Len(d.organizations)}

setSelectedNodeId(id) ==
    /\ drawer.isOpen
    /\ drawer.editMode = "edit"
    /\ id \in NodeOptions(drawer)
    /\ id # drawer.selectedNodeId
    /\ DrawerStep(formEffect([drawer EXCEPT !.selectedNodeId = id, !.saved = NoSave]))

setNodeType(type) ==
    /\ drawer.isOpen
    /\ drawer.editMode = "add"
    /\ type # drawer.nodeType
    /\ DrawerStep(formEffect([drawer EXCEPT !.nodeType = type, !.saved = NoSave]))

\* What the user can type into the three text inputs
InputValues(field) ==
    CASE field = "name" -> {"", "New"}
      [] field = "primary_url" -> {"", "u:new"}
      [] field = "profile_url" -> {"", "u:ben"}

handleInputChange(field, value) ==
    /\ drawer.isOpen
    /\ drawer.formData[field] # value
    /\ DrawerStep([drawer EXCEPT !.formData[field] = value, !.saved = NoSave])

addRelationship ==
    /\ drawer.isOpen
    /\ Len(drawer.formData.relationships) < MaxFormRelationships
    /\ DrawerStep([drawer EXCEPT !.formData.relationships = Append(@, FormRel(knows, "")),
                                 !.saved = NoSave])

updateRelationship(index, value) ==
    /\ drawer.isOpen
    /\ index \in 1..Len(drawer.formData.relationships)
    /\ value \in NodeOptions(drawer)
    /\ drawer.formData.relationships[index].object_url # value
    /\ DrawerStep([drawer EXCEPT !.formData.relationships[index].object_url = value,
                                 !.saved = NoSave])

removeRelationship(index) ==
    /\ drawer.isOpen
    /\ index \in 1..Len(drawer.formData.relationships)
    /\ DrawerStep([drawer EXCEPT
            !.formData.relationships =
                SubSeq(@, 1, index - 1) \o SubSeq(@, index + 1, Len(@)),
            !.saved = NoSave])

\* personData / orgData: the form with profile_url defaulted and the
\* relationships without a target filtered out
savedEntity(form) ==
    Entity(form.name, form.primary_url,
           IF form.profile_url # "" THEN form.profile_url ELSE form.primary_url,
           SelectSeq(form.relationships, LAMBDA r : r.object_url # ""))

\* updatedPeople or updatedOrganizations: replaced at the selected index if
\* found, pushed when not editing a selected node
updatedList(list, d) ==
    IF d.editMode = "edit" /\ d.selectedNodeId # ""
    THEN IF findIndex(list, d.selectedNodeId, 1) # 0
         THEN [list EXCEPT ![findIndex(list, d.selectedNodeId, 1)] = savedEntity(d.formData)]
         ELSE list
    ELSE Append(list, savedEntity(d.formData))

SaveRecord(d, callList) ==
    [called |-> TRUE, editMode |-> d.editMode, selectedNodeId |-> d.selectedNodeId,
     formData |-> d.formData, people |-> d.people, organizations |-> d.organizations,
     calls |-> callList]

\* handleSave after its guard: onUpdateData (setData and setIsEditing(false)
\* in NetworkOptions), then onClose
saveLists(d, people, organizations) ==
    DrawerStep(formEffect(
        [d EXCEPT !.people = people, !.organizations = organizations, !.isOpen = FALSE,
                  !.saved = SaveRecord(d, <<[fn |-> "onUpdateData", people |-> people,
                                             organizations |-> organizations],
                                            [fn |-> "onClose"]>>)]))

handleSave ==
    /\ drawer.isOpen
    /\ IF drawer.formData.name = "" \/ drawer.formData.primary_url = ""
       THEN DrawerStep([drawer EXCEPT !.saved = SaveRecord(drawer, <<[fn |-> "alert"]>>)])
       ELSE IF drawer.formData.type = "person"
       THEN saveLists(drawer, updatedList(drawer.people, drawer), drawer.organizations)
       ELSE saveLists(drawer, drawer.people, updatedList(drawer.organizations, drawer))

handleDelete ==
    /\ drawer.isOpen
    /\ drawer.editMode = "edit"
    /\ drawer.selectedNodeId # ""
    /\ DrawerStep(formEffect(
          [drawer EXCEPT
              !.people = SelectSeq(@, LAMBDA e : e.profile_url # drawer.selectedNodeId),
              !.organizations = SelectSeq(@, LAMBDA e : e.profile_url # drawer.selectedNodeId),
              !.isOpen = FALSE,
              !.saved = NoSave]))

InitEdit ==
    /\ AppIdle
    /\ ForceGraphIdle
    /\ Mounted
    /\ NoFetch
    /\ sources = <<"World Wise Web", "Limicon 2024", "Limicon 2025">>
    /\ drawer = DrawerOf(<<>>, <<>>)

NextEdit ==
    \/ toggleEditor
    \/ \E ds \in DrawerData : drawerData(ds)
    \/ selectAddMode
    \/ selectEditMode
    \/ \E id \in NodeOptions(drawer) : setSelectedNodeId(id)
    \/ \E type \in {"person", "organization"} : setNodeType(type)
    \/ \E field \in {"name", "primary_url", "profile_url"} :
          \E value \in InputValues(field) : handleInputChange(field, value)
    \/ addRelationship
    \/ \E index \in 1..MaxFormRelationships :
          \E value \in NodeOptions(drawer) : updateRelationship(index, value)
    \/ \E index \in 1..MaxFormRelationships : removeRelationship(index)
    \/ handleSave
    \/ handleDelete

SpecEdit == InitEdit /\ [][NextEdit]_vars

(***************************************************************************)
(* Claims about the reconciler (checked under SpecApp)                     *)
(***************************************************************************)
LiveIds == {data.nodes[i].id : i \in 1..Len(data.nodes)}

\* The records the current inputs supply: those of the active sources that
\* pass the node filter
SuppliedPeople ==
    IF nodeFilter = "orgs" THEN {}
    ELSE UNION {Range(rawData[i].people) : i \in {j \in 1..Len(rawData) : rawData[j].active}}

SuppliedOrgs ==
    IF nodeFilter = "people" THEN {}
    ELSE UNION {Range(rawData[i].orgs) : i \in {j \in 1..Len(rawData) : rawData[j].active}}

\* Tags are generated from all people and orgs of the active sources
TaggedObjects ==
    UNION {Range(rawData[i].people) \cup Range(rawData[i].orgs) :
             i \in {j \in 1..Len(rawData) : rawData[j].active}}

SuppliedIds ==
    {heap[o].profile_url : o \in SuppliedPeople \cup SuppliedOrgs}
    \cup (IF showTags THEN {TagId(t) : t \in UNION {Range(heap[o].tags) : o \in TaggedObjects}}
          ELSE {})

\* C1: after every pass the live node array holds exactly one node per unique
\* id of the new data: as many nodes as distinct ids, no id twice, no id that
\* the new data does not hold.
C1_OneNodePerSuppliedId ==
    /\ Len(data.nodes) = Cardinality(SuppliedIds)
    /\ \A i, j \in 1..Len(data.nodes) : data.nodes[i].id = data.nodes[j].id => i = j
    /\ LiveIds \subseteq SuppliedIds

\* C2: after every pass every link of the live link array has a source and a
\* target that are node objects of the live node array.
C2_LinkEndpointsLive ==
    \A i \in 1..Len(data.links) :
        /\ data.links[i].source.kind = "node" /\ data.links[i].source.id \in LiveIds
        /\ data.links[i].target.kind = "node" /\ data.links[i].target.id \in LiveIds

\* C5: after every pass the payload of every live person or organization node
\* (name and profile) is the payload a supplied record gives for its id, and
\* the relationship links are those of the supplied payloads.
SuppliedFor(id) == {o \in SuppliedPeople \cup SuppliedOrgs : heap[o].profile_url = id}

LiveLinkKeys == {getLinkKey(data.links[i]) : i \in 1..Len(data.links)}

SuppliedSeq(kind) ==
    Flatten([i \in 1..Len(rawData) |->
        IF ~rawData[i].active THEN <<>>
        ELSE IF kind = "people"
             THEN (IF nodeFilter = "orgs" THEN <<>> ELSE Records(heap, rawData[i].people))
             ELSE (IF nodeFilter = "people" THEN <<>> ELSE Records(heap, rawData[i].orgs))])

SuppliedRelationshipKeys ==
    LET ls == getLinksFromRelationships(SuppliedSeq("people"), SuppliedSeq("orgs"))
    IN {getLinkKey(ls[i]) : i \in 1..Len(ls)}

C5_PayloadUpdated ==
    /\ \A i \in 1..Len(data.nodes) :
          data.nodes[i].type # "tag" =>
             \E o \in SuppliedFor(data.nodes[i].id) :
                /\ data.nodes[i].name = heap[o].name
                /\ heap[data.nodes[i].profile] = heap[o]
    /\ showRelationships =>
          {k \in LiveLinkKeys : \E i \in 1..Len(data.links) :
                getLinkKey(data.links[i]) = k /\ data.links[i].type # "tag"}
             = SuppliedRelationshipKeys

\* C6: records of one entity met in one pass yield a single node, and the
\* merged arrays hold no value twice (two relationships with equal
\* predicate_url and object_url count as one).
NoValueTwice(s) == \A i, j \in 1..Len(s) : s[i] = s[j] => i = j

NoRelationshipTwice(s) ==
    \A i, j \in 1..Len(s) :
        (s[i].predicate_url = s[j].predicate_url /\ s[i].object_url = s[j].object_url)
            => i = j

C6_MergeIsUnion ==
    /\ \A o \in SuppliedPeople \cup SuppliedOrgs :
          /\ NoValueTwice(heap[o].tags)
          /\ NoValueTwice(heap[o].linked_schemas)
          /\ NoRelationshipTwice(heap[o].relationships)
    /\ \A o \in SuppliedPeople \cup SuppliedOrgs :
          Cardinality({i \in 1..Len(data.nodes) :
                          data.nodes[i].type # "tag" /\ data.nodes[i].name = heap[o].name}) <= 1

(***************************************************************************)
(* Claims about the simulation state across renders and about the drag     *)
(* handlers (checked under SpecGraph)                                      *)
(***************************************************************************)
Kinematics(n) == <<n.hasPos, n.x, n.y, n.vx, n.vy>>
IdsOf(nodes) == [i \in 1..Len(nodes) |-> nodes[i].id]

\* C3: when the graph is rendered again with the same nodes and the same
\* links, then once the simulation effect has run every node of the
\* simulation has the x, y, vx, vy the simulation held for it before
C3_IdempotentPassKeepsSimulationState ==
    [][(/\ effectsPending /\ ~effectsPending'
        /\ simNodes # <<>>
        /\ IdsOf(simNodes) = IdsOf(simulation.nodes)
        /\ simLinks = simulation.links)
       => \A i \in 1..Len(simNodes') :
            Kinematics(simNodes'[i]) = Kinematics(simulation.nodes[i])]_vars

\* C4: when the graph is rendered again with one node added to the nodes the
\* simulation holds, then once the simulation effect has run every node it
\* held before has the x, y, vx, vy it had
C4_AddedNodeKeepsOthers ==
    [][(/\ effectsPending /\ ~effectsPending'
        /\ Len(simulation.nodes) >= 1
        /\ Len(simNodes) = Len(simulation.nodes) + 1
        /\ SubSeq(IdsOf(simNodes), 1, Len(simulation.nodes)) = IdsOf(simulation.nodes))
       => \A i \in 1..Len(simulation.nodes) :
            Kinematics(simNodes'[i]) = Kinematics(simulation.nodes[i])]_vars

\* C7: when a drag gesture that started on a node ends (and the node is still
\* the simulation's), that node's fx and fy are cleared
C7_DragEndUnpins ==
    [][(gesture.active /\ ~gesture'.active /\ gesture.startedOn # 0)
       => ~simNodes'[gesture.startedOn].pinned]_vars

(***************************************************************************)
(* Claims about hit-testing (checked under SpecHit)                        *)
(***************************************************************************)
PlacedNodes == {i \in 1..Len(simNodes) : simNodes[i].hasPos}
ScreenCentre(i) == screenOf(transform, simNodes[i].x, simNodes[i].y)
AtCentre(i) == probe.x = ScreenCentre(i).x /\ probe.y = ScreenCentre(i).y

\* Squared distance between two node centres, in world units
CentreDist2(i, j) ==
    Add(Sq(Sub(simNodes[i].x, simNodes[j].x)), Sq(Sub(simNodes[i].y, simNodes[j].y)))

\* The first placed node, in array order, whose centre is within nodeSize
\* world units of node i's centre
FirstCovering(i) ==
    CHOOSE j \in PlacedNodes :
        /\ Leq(CentreDist2(j, i), Sq(Whole(nodeSize)))
        /\ \A m \in PlacedNodes : Leq(CentreDist2(m, i), Sq(Whole(nodeSize))) => j <= m

\* C8 as stated: at every scale, the screen point of a placed node's centre
\* resolves to that node
C8_CentreResolvesToNode ==
    probe.called = "node" =>
        \A i \in PlacedNodes : AtCentre(i) => probe.result = i

\* C8: at every scale, the screen point of a placed node's centre resolves to
\* the first node in array order whose centre lies within nodeSize world units
\* of it: the node itself unless an earlier node overlaps its centre
C8_CentreResolvesToFirstCovering ==
    probe.called = "node" =>
        \A i \in PlacedNodes : AtCentre(i) => probe.result = FirstCovering(i)

C8_Witness ==
    /\ probe.called = "node"
    /\ transform.k = Whole(2)
    /\ \E i \in PlacedNodes : AtCentre(i) /\ probe.result # i /\ probe.result = FirstCovering(i)

\* Squared distance from the pointer to a node's centre, in world units
PointerDist2(i) ==
    Div(Add(Sq(Sub(probe.x, ScreenCentre(i).x)), Sq(Sub(probe.y, ScreenCentre(i).y))),
        Sq(transform.k))

\* C9: a point farther from a node's centre than the radius draw() gives the
\* node does not resolve to it, and a point within that radius resolves to it
\* (or to an earlier node)
C9_HitRadiusIsDrawnRadius ==
    probe.called = "node" =>
        \A i \in PlacedNodes :
            /\ Less(Sq(drawRadius(transform)), PointerDist2(i)) => probe.result # i
            /\ Leq(PointerDist2(i), Sq(drawRadius(transform))) => probe.result \in 1..i

\* The links whose two endpoints are placed nodes
PlacedLinks ==
    {i \in 1..Len(simLinks) :
        /\ nodeMapGet(simNodes, simLinks[i].source) \in PlacedNodes
        /\ nodeMapGet(simNodes, simLinks[i].target) \in PlacedNodes}

SourceOnScreen(i) == ScreenCentre(nodeMapGet(simNodes, simLinks[i].source))
TargetOnScreen(i) == ScreenCentre(nodeMapGet(simNodes, simLinks[i].target))

ZeroLength(i) == SourceOnScreen(i) = TargetOnScreen(i)

AtMidpoint(i) ==
    /\ probe.x = Div(Add(SourceOnScreen(i).x, TargetOnScreen(i).x), Whole(2))
    /\ probe.y = Div(Add(SourceOnScreen(i).y, TargetOnScreen(i).y), Whole(2))

\* The pointer is within 5 screen pixels of link i's segment: of an endpoint
\* when its projection falls outside the segment, of the line otherwise
WithinLinkThreshold(i) ==
    LET A == SourceOnScreen(i)
        B == TargetOnScreen(i)
        dx == Sub(B.x, A.x)
        dy == Sub(B.y, A.y)
        px == Sub(probe.x, A.x)
        py == Sub(probe.y, A.y)
        len2 == Add(Sq(dx), Sq(dy))
        dot == Add(Mul(px, dx), Mul(py, dy))
        cross == Sub(Mul(dx, py), Mul(dy, px))
        r2 == Sq(Whole(linkHitPixels))
    IN IF Leq(dot, Zero) THEN Leq(Add(Sq(px), Sq(py)), r2)
       ELSE IF Leq(len2, dot)
            THEN Leq(Add(Sq(Sub(probe.x, B.x)), Sq(Sub(probe.y, B.y))), r2)
       ELSE Leq(Mul(Div(cross, len2), cross), r2)

FirstOf(S) == IF S = {} THEN 0 ELSE CHOOSE i \in S : \A j \in S : i <= j

\* C10 as stated: the result is the first link, among those with both endpoints
\* placed, that has the pointer within 5 pixels of its segment (so the
\* midpoint of a link's segment resolves to it unless an earlier link is as
\* near), and null when there is none
C10_FirstLinkWithinThreshold ==
    probe.called = "link" =>
        probe.result = FirstOf({i \in PlacedLinks : WithinLinkThreshold(i)})

\* C10: the result is the first link, among those with both endpoints placed
\* and a segment of non-zero length, that has the pointer within 5 pixels of
\* its segment, and null when there is none
C10_FirstProperLinkWithinThreshold ==
    probe.called = "link" =>
        probe.result = FirstOf({i \in PlacedLinks : ~ZeroLength(i) /\ WithinLinkThreshold(i)})

C10_Witness ==
    /\ probe.called = "link"
    /\ transform.k = scaleExtentMax
    /\ \E i \in PlacedLinks : i > 1 /\ ~ZeroLength(i) /\ AtMidpoint(i) /\ probe.result = i

(***************************************************************************)
(* Claims about the view transform (checked under SpecGraph)               *)
(***************************************************************************)
\* C11: in every reachable state the scale k of the view transform satisfies
\* 0.1 <= k <= 10, whatever scales were requested and however often the
\* effects have re-run
C11_ScaleWithinExtent ==
    /\ Leq(scaleExtentMin, transform.k)
    /\ Leq(transform.k, scaleExtentMax)

\* A request for scale 20 was clamped to 10, in a state where the effects have
\* run for a graph and the simulation has ticked
C11_Witness ==
    /\ transform.k = scaleExtentMax
    /\ simulation.created
    /\ ~effectsPending
    /\ ticks >= 1

(***************************************************************************)
(* Claims about the hover state (checked under SpecHover)                  *)
(***************************************************************************)
\* C12: onNodeHover and onLinkHover fire only when the element under the
\* pointer changes (never for the element that was hovered already, also
\* after a graph-data update that keeps that element), at most once each per
\* pointer event, with the pair (new target, previously hovered target); and
\* the tooltip shows the label of the hovered element or is cleared
C12_HoverFiresOnTargetChange ==
    /\ \A i \in 1..Len(calls) : calls[i].new.id # calls[i].previous.id
    /\ \A i, j \in 1..Len(calls) : calls[i].fn = calls[j].fn => i = j
    /\ \A i \in 1..Len(calls) :
         calls[i].new.id = (IF calls[i].fn = "onNodeHover" THEN hoveredNode.id
                            ELSE hoveredLink.id)
    /\ tooltip.content = (IF hoveredNode # NoTarget THEN hoveredNode.id ELSE hoveredLink.id)

(***************************************************************************)
(* Claims about draw() (checked under SpecGraph)                           *)
(***************************************************************************)
LinkPlaced(nodes, link) ==
    /\ nodeMapGet(nodes, link.source) # 0
    /\ nodeMapGet(nodes, link.target) # 0
    /\ nodes[nodeMapGet(nodes, link.source)].hasPos
    /\ nodes[nodeMapGet(nodes, link.target)].hasPos

\* C13: whenever draw() runs (the effects have run for the current graph
\* data), it draws nothing and calls no per-element callback for a node
\* without x or y, or for a link with an unresolved or unplaced endpoint,
\* with or without the nodeCanvasObject / linkCanvasObject props
C13_DrawSkipsUnplaced ==
    (~effectsPending /\ ~crashed) =>
        \A nodeCanvasObject, linkCanvasObject \in BOOLEAN :
            /\ \A i \in drawNodes(simNodes, nodeCanvasObject) : simNodes[i].hasPos
            /\ \A i \in drawLinks(simNodes, simLinks, linkCanvasObject) :
                  LinkPlaced(simNodes, simLinks[i])

(***************************************************************************)
(* Claims about the fetchers (checked under SpecFetch)                     *)
(***************************************************************************)
\* C14: once the fetcher's AbortSignal is aborted, the fetcher invokes
\* neither its data callback nor its error callback, whether the request in
\* flight succeeds or fails
C14_NoCallbackAfterAbort ==
    \A i \in 1..Len(fetchCalls) : ~fetchCalls[i].aborted

(***************************************************************************)
(* Claims about teardown and the interaction props (checked under          *)
(* SpecInteract)                                                           *)
(***************************************************************************)
\* C15: once the component is unmounted the simulation is stopped and no
\* zoom or drag listener is left on the canvas, and from then on no tick and
\* no zoom or drag handler runs (nothing they write changes)
C15_TeardownReleasesEverything ==
    [][/\ ~mounted' => (~simulation'.running /\ ~attached'.zoom /\ ~attached'.drag)
       /\ ~mounted => UNCHANGED <<simNodes, simulation, transform, gesture, ticks>>]_vars

(***************************************************************************)
(* Claims about the simulation instance (checked under SpecGraph)          *)
(***************************************************************************)
\* C16: the simulation, once created, is reused by every later graph-data
\* update, and after each update (the simulation effect has run) its nodes
\* and its links are those of the supplied graph data, also when the
\* supplied graph is empty
C16_SimulationHoldsSuppliedGraph ==
    [][(effectsPending /\ ~effectsPending' /\ ~crashed' /\ simulation.created)
       => /\ simulation'.created
          /\ IdsOf(simulation'.nodes) = IdsOf(graphData'.nodes)
          /\ simulation'.links = simulationData(graphData').links]_vars

C18_DanglingLinkDropped ==
    [][(effectsPending /\ ~effectsPending' /\ simNodes # <<>>)
       => /\ ~crashed'
          /\ simulation'.running
          /\ IdsOf(simulation'.nodes) = IdsOf(simNodes)
          /\ linkEndpointsFound(simulation'.nodes, simulation'.links)]_vars

(***************************************************************************)
(* Claims about getLinksFromRelationships (checked under SpecLinks)        *)
(***************************************************************************)
UrlsOf(recs) == {recs[i].profile_url : i \in 1..Len(recs)}

\* The link a relationship r of the record rec must yield by the table, when
\* the object is among the given records of the right kind
TableLinks(recs, predicate, type, objects) ==
    { Link(recs[i].profile_url, type, recs[i].relationships[j].object_url) :
        <<i, j>> \in { ij \in (1..Len(recs)) \X (1..3) :
                         /\ ij[2] <= Len(recs[ij[1]].relationships)
                         /\ recs[ij[1]].relationships[ij[2]].predicate_url = predicate
                         /\ recs[ij[1]].relationships[ij[2]].object_url \in objects } }

\* C19: getLinksFromRelationships emits a link for every relationship that
\* matches the table (memberOf: person -> organization and project ->
\* organization; knows: person -> person; maintainer: person -> project;
\* softwareRequirement: project -> project) whose object_url is among the
\* given people / orgs, and no link whose target is not among them
C19_LinksFollowTable ==
    relCall.called =>
        /\ TableLinks(relCall.people, memberOf, "memberOf", UrlsOf(relCall.orgs))
             \subseteq Range(relCall.result)
        /\ TableLinks(relCall.orgs, memberOf, "memberOf", UrlsOf(relCall.orgs))
             \subseteq Range(relCall.result)
        /\ TableLinks(relCall.people, knows, "knows", UrlsOf(relCall.people))
             \subseteq Range(relCall.result)
        /\ TableLinks(relCall.people, maintainer, "maintainer", UrlsOf(relCall.orgs))
             \subseteq Range(relCall.result)
        /\ TableLinks(relCall.orgs, softwareRequirement, "softwareRequirement",
                      UrlsOf(relCall.orgs))
             \subseteq Range(relCall.result)
        /\ \A l \in Range(relCall.result) :
             l.target.id \in UrlsOf(relCall.people) \cup UrlsOf(relCall.orgs)

\* C20: each interaction toggle disables its own interaction, from mount or
\* after being switched off: while enableZoomInteraction is false the scale
\* k does not change; while enablePanInteraction is false no drag on the
\* background (a change of the view at the same scale) changes the
\* translation; while enableNodeDrag is false no step sets fx / fy on a node
C20_TogglesDisableInteractions ==
    [][/\ ~props.enableZoomInteraction => transform'.k = transform.k
       /\ (~props.enablePanInteraction /\ transform'.k = transform.k)
            => transform' = transform
       /\ ~props.enableNodeDrag
            => \A i \in 1..Len(simNodes') :
                 simNodes'[i].pinned
                    => /\ i <= Len(simNodes)
                       /\ simNodes[i].pinned
                       /\ simNodes'[i].fx = simNodes[i].fx
                       /\ simNodes'[i].fy = simNodes[i].fy]_vars

(***************************************************************************)
(* Claims about what the toggles leave in the live graph (checked under    *)
(* SpecApp)                                                                *)
(***************************************************************************)
RelationshipTypes == {"memberOf", "knows", "maintainer", "softwareRequirement"}

LiveLinkTypes == {data.links[i].type : i \in 1..Len(data.links)}
LiveNodeTypes == {data.nodes[i].type : i \in 1..Len(data.nodes)}

\* C21: after any pass with showTags false the live graph holds no node of
\* type 'tag' and no link of type 'tag', and after any pass with
\* showRelationships false it holds no link of type memberOf, knows,
\* maintainer or softwareRequirement, whatever the previous graph held.
C21_TogglesOffLeaveNothing ==
    /\ ~showTags => ("tag" \notin LiveNodeTypes /\ "tag" \notin LiveLinkTypes)
    /\ ~showRelationships => LiveLinkTypes \cap RelationshipTypes = {}

\* Both toggles are off over a graph that still holds nodes, of sources whose
\* records carry tags and relationships
C21_Witness ==
    /\ ~showTags
    /\ ~showRelationships
    /\ data.nodes # <<>>
    /\ data.links = <<>>
    /\ \E o \in SuppliedPeople : heap[o].tags # <<>> /\ heap[o].relationships # <<>>

(***************************************************************************)
(* Claims about the paginated fetcher (checked under SpecFetchFair)        *)
(***************************************************************************)
DataCalls(callList) == SelectSeq(callList, LAMBDA c : c.fn = "callback")

\* The step in which the paged fetcher returns
Returns == fetcher.kind = "paged" /\ fetcher.pc # "done" /\ fetcher'.pc = "done"

IsSavedFrom(e, form) ==
    /\ e.name = form.name
    /\ e.primary_url = form.primary_url
    /\ e.profile_url = (IF form.profile_url # "" THEN form.profile_url
                        ELSE form.primary_url)
    /\ e.relationships = SelectSeq(form.relationships, LAMBDA r : r.object_url # "")

UpdateCalls(sv) == SelectSeq(sv.calls, LAMBDA c : c.fn = "onUpdateData")

\* in is the list of the form's type before the save, out the one handed on
AppendedTo(in, out, form) ==
    /\ Len(out) = Len(in) + 1
    /\ SubSeq(out, 1, Len(in)) = in
    /\ IsSavedFrom(out[Len(out)], form)

ReplacedIn(in, out, form, id) ==
    /\ Len(out) = Len(in)
    /\ \E k \in 1..Len(in) :
          /\ in[k].profile_url = id
          /\ IsSavedFrom(out[k], form)
          /\ \A j \in 1..Len(in) : j # k => out[j] = in[j]

SavedAsClaimed(sv, c) ==
    /\ drawer.people = c.people
    /\ drawer.organizations = c.organizations
    /\ IF sv.formData.type = "person"
       THEN /\ c.organizations = sv.organizations
            /\ IF sv.editMode = "add"
               THEN AppendedTo(sv.people, c.people, sv.formData)
               ELSE ReplacedIn(sv.people, c.people, sv.formData, sv.selectedNodeId)
       ELSE /\ c.people = sv.people
            /\ IF sv.editMode = "add"
               THEN AppendedTo(sv.organizations, c.organizations, sv.formData)
               ELSE ReplacedIn(sv.organizations, c.organizations, sv.formData,
                               sv.selectedNodeId)

\* C23: handleSave with an empty name or an empty primary_url changes
\* nothing: onUpdateData and onClose are not called and the lists are
\* unchanged; with both present it calls onUpdateData exactly once with lists
\* that differ from the input only in the one saved entity (appended in add
\* mode, replaced in place in edit mode), whose profile_url defaults to
\* primary_url and whose relationships omit entries with an empty object_url.
C23_SaveChangesOneEntity ==
    drawer.saved.called =>
        IF drawer.saved.formData.name = "" \/ drawer.saved.formData.primary_url = ""
        THEN /\ \A i \in 1..Len(drawer.saved.calls) :
                    drawer.saved.calls[i].fn \notin {"onUpdateData", "onClose"}
             /\ drawer.people = drawer.saved.people
             /\ drawer.organizations = drawer.saved.organizations
        ELSE /\ Len(UpdateCalls(drawer.saved)) = 1
             /\ SavedAsClaimed(drawer.saved, UpdateCalls(drawer.saved)[1])

(***************************************************************************)
(* Claims about pointer resolution (checked under SpecPointer)             *)
(***************************************************************************)
NodeAt(p) == getNodeAtPosition(simNodes, transform, p.x, p.y)
LinkAt(p) == getLinkAtPosition(simNodes, simLinks, transform, p.x, p.y)

ClickCalls(callList) ==
    SelectSeq(callList, LAMBDA c : c.fn \in {"onNodeClick", "onLinkClick"})

\* C24: nodes have priority over links.  On a pointer move or click at a
\* point where both a node and a link are hit, only the node is hovered or
\* clicked: onNodeClick fires and onLinkClick does not, a previously hovered
\* link is left with onLinkHover(null, previous); and each click fires at
\* most one click callback.
C24_NodesBeforeLinks ==
    [][/\ \A p \in {q \in PointerSpots : NodeAt(q) # 0 /\ LinkAt(q) # 0} :
            /\ handleMouseMove(p) =>
                  /\ hoveredNode' = NodeTarget(simNodes, NodeAt(p))
                  /\ hoveredLink' = NoTarget
                  /\ \A i \in 1..Len(calls') :
                        calls'[i].fn = "onLinkHover" =>
                           /\ calls'[i].new = NoTarget
                           /\ calls'[i].previous = hoveredLink
                  /\ hoveredLink # NoTarget =>
                        \E i \in 1..Len(calls') : calls'[i].fn = "onLinkHover"
            /\ handleClick(p) =>
                  calls' = <<ClickCall("onNodeClick", NodeTarget(simNodes, NodeAt(p)))>>
       /\ Len(ClickCalls(calls')) <= 1]_vars

\* The pointer moved from a link onto a node at an end of that link, where
\* the link is hit too
C24_Witness ==
    /\ hoveredNode # NoTarget
    /\ hoveredLink = NoTarget
    /\ \E i \in 1..Len(calls) :
          /\ calls[i].fn = "onLinkHover"
          /\ calls[i].new = NoTarget
          /\ calls[i].previous # NoTarget
          /\ hoveredNode.id[1] \in Range(calls[i].previous.id)

(***************************************************************************)
(* Claims about the keys of the live links (checked under SpecApp)         *)
(***************************************************************************)
\* C25: after every pass no two links of the live link array have the same
\* composite key (source id, type, target id) as getLinkKey computes it, even
\* when the input holds repeated relationships or repeated tags for one
\* entity, or the same link is derived from several sources.
C25_LinkKeysUnique ==
    \A i, j \in 1..Len(data.links) :
        getLinkKey(data.links[i]) = getLinkKey(data.links[j]) => i = j

(***************************************************************************)
(* Claims about the pass as a function of its inputs (checked under        *)
(* SpecApp)                                                                *)
(***************************************************************************)
NodeIdsOf(d) == {d.nodes[i].id : i \in 1..Len(d.nodes)}
LinkKeysOf(d) == {getLinkKey(d.links[i]) : i \in 1..Len(d.links)}

\* The pass over the current inputs from the empty graph, and from the live
\* graph once more
FromEmpty ==
    Reconcile([nodes |-> <<>>, links |-> <<>>], heap, rawData, nodeFilter,
              showRelationships, showTags).data

Again == Reconcile(data, heap, rawData, nodeFilter, showRelationships, showTags).data

\* C26: the result of a pass does not depend on history: for the same inputs
\* (rawData, nodeFilter, showTags, showRelationships) the set of live node
\* ids and the set of live link keys after the pass are the same whatever the
\* previous graph was, so a second pass with unchanged inputs removes or adds
\* nothing.
C26_PassIndependentOfHistory ==
    /\ NodeIdsOf(data) = NodeIdsOf(FromEmpty)
    /\ LinkKeysOf(data) = LinkKeysOf(FromEmpty)
    /\ NodeIdsOf(Again) = NodeIdsOf(data)
    /\ LinkKeysOf(Again) = LinkKeysOf(data)

(***************************************************************************)
(* Claims about the hover state (checked under SpecPointer)                *)
(***************************************************************************)
\* C27: after any sequence of pointer-move and pointer-leave events,
\* hoveredNode and hoveredLink are never both non-null, and the tooltip is
\* non-null only while one of them is non-null.
C27_OneHoverTarget ==
    /\ ~(hoveredNode # NoTarget /\ hoveredLink # NoTarget)
    /\ tooltip # NoTooltip => (hoveredNode # NoTarget \/ hoveredLink # NoTarget)

\* The pointer moved from a node onto a link: the node was left, the link is
\* hovered and the tooltip shows it
C27_Witness ==
    /\ hoveredNode = NoTarget
    /\ hoveredLink # NoTarget
    /\ tooltip.shown
    /\ tooltip.content = hoveredLink.id
    /\ \E i \in 1..Len(calls) :
          calls[i].fn = "onNodeHover" /\ calls[i].new = NoTarget
                                      /\ calls[i].previous # NoTarget

(***************************************************************************)
(* Claims about the neighbour map of useEnclosingCircles (checked under    *)
(* SpecApp)                                                                *)
(***************************************************************************)
\* C28: useEnclosingCircles never throws while building its neighbour map
\* for any graph data the reconciler can produce after any sequence of
\* filter, tag, source and edit changes: every link endpoint it reads
\* resolves to a node whose id is a key of the map built from data.nodes.
C28_NeighbourMapNeverThrows ==
    /\ ~neighborsThrows(data)
    /\ ~crashed

(***************************************************************************)
(* Claims about the sources list (checked under SpecSources)               *)
(***************************************************************************)
EntryLabels(raws) == {raws[i].label : i \in 1..Len(raws)}

\* The step is Remove of source i
Removes(i) == i \in 1..Len(sources) /\ RemoveSource(i)

\* C29: after any sequence of Add Source, Remove Source and network-dropdown
\* selections, rawData holds entries only for labels of sources currently in
\* the sources list, so the graph never shows nodes of a network that is no
\* longer selected; and removing one source removes only that source's entry.
C29_RawDataFollowsSources ==
    /\ [](/\ EntryLabels(rawData) \subseteq Range(sources)
          /\ \A i \in 1..Len(data.nodes) :
                Range(data.nodes[i].networks) \subseteq Range(sources))
    /\ [][\A i \in 1..MaxSources :
            Removes(i) =>
               /\ EntryLabels(rawData') = EntryLabels(rawData) \ {sources[i]}
               /\ \A j \in 1..Len(rawData) :
                     rawData[j].label # sources[i] => rawData[j] \in Range(rawData')]_vars

====
